---- MODULE Spec2Model ----
(***************************************************************************)
(* Fountain Scan: the heuristic scoring and domain-list engine, the        *)
(* blocking-rule compiler, the message handlers, the navigation and        *)
(* request listeners and the cleanup of the background service worker      *)
(* (src/background.js), and the analysis throttle of the content script    *)
(* (src/content.js).                                                       *)
(*                                                                         *)
(* JavaScript strings are TLA+ strings; the string methods the code uses   *)
(* (startsWith, endsWith, includes, substring, toLowerCase, replace with   *)
(* the cleanDomain regex, join) are defined character by character below.  *)
(* A JavaScript value that is not a string (undefined / null) is the       *)
(* distinguished value Undefined, on which every string method throws a    *)
(* TypeError.                                                              *)
(***************************************************************************)
EXTENDS Integers, Sequences, FiniteSets, TLC

VARIABLES
    settings,       \* background.js:40   let settings = {...}
    blacklist,      \* background.js:48   let blacklist = []
    whitelist,      \* background.js:49   let whitelist = []
    url,            \* argument url of calculateHeuristicScore
    content,        \* argument content of calculateHeuristicScore
    domain,         \* argument domain of calculateHeuristicScore
    analysis,       \* the object calculateHeuristicScore returned
    url2,           \* argument url of a second call for the same domain
    content2,       \* argument content of the second call
    analysis2,      \* the object the second call returned
    dynamicRules,   \* the dynamic rules installed in the browser
                    \* (chrome.declarativeNetRequest)
    callQueue,      \* declarativeNetRequest calls issued and not yet completed,
                    \* oldest first
    updates,        \* the invocations of updateBlockingRules, in start order
    currentDomain,  \* argument currentDomain of domainMatches
    listDomain,     \* argument listDomain of domainMatches
    matchResult,    \* outcome of the domainMatches call
    tasks,          \* the invocations of the service worker's asynchronous
                    \* message handlers, in start order
    tabs,           \* the URL each browser tab shows or is loading
    activeTab,      \* the active tab of the current window
    storage,        \* the content of chrome.storage.local
    notifications,  \* the notifications chrome.notifications.create was asked for
    response,       \* what the webRequest.onBeforeRequest listener returned last
    now,            \* Date.now(), in milliseconds since the browser started
    cleanup,        \* the run of the hourly cleanup callback
    isAnalyzing,    \* content.js:7    let isAnalyzing = false
    lastAnalysisTime, \* content.js:8  let lastAnalysisTime = 0
    analysisTimer,  \* content.js:10   let analysisTimer = null
    debounceTimers, \* the timeouts debouncedAnalysis has set (content.js:471)
                    \* that have neither run nor been cleared
    burst,          \* the number of calls of debouncedAnalysis since one was
                    \* made with no debounce timeout pending, that one counted
    timers,         \* the timeouts the content script has set and not yet run
    executions,     \* the times at which the analysis body started, oldest first
    popup,          \* the popup's FountainScan object (backend/server.js:57-68)
                    \* and the callbacks it waits for
    inbox,          \* the messages sent to the service worker and not yet
                    \* received, oldest first
    blockedPage,    \* the BlockedPage object of blocked.html (blocked.js:3-6),
                    \* the page's address and the callbacks it waits for
    whitelistCalls  \* the invocations of handleAddToWhitelist, in start order

vars == <<settings, blacklist, whitelist, url, content, domain, analysis,
          url2, content2, analysis2, dynamicRules, callQueue, updates,
          currentDomain, listDomain, matchResult,
          tasks, tabs, activeTab, storage, notifications, response, now, cleanup,
          isAnalyzing, lastAnalysisTime, analysisTimer, debounceTimers, burst,
          timers, executions, popup, inbox, blockedPage, whitelistCalls>>

scanVars == <<settings, blacklist, whitelist, url, content, domain, analysis>>
secondVars == <<url2, content2, analysis2>>
ruleVars == <<dynamicRules, callQueue, updates>>
matchVars == <<currentDomain, listDomain, matchResult>>
workerVars == <<tasks, tabs, activeTab, storage, notifications, response, now, cleanup>>
pageVars == <<isAnalyzing, lastAnalysisTime, analysisTimer, debounceTimers, burst,
              timers, executions>>
extensionVars == <<popup, inbox, blockedPage, whitelistCalls>>

-----------------------------------------------------------------------------
(* JavaScript values and string methods *)

\* undefined / null: not a string, every method call on it throws TypeError.
Undefined == "<undefined>"

IsString(v) == v # Undefined

UpperCaseLetters == "ABCDEFGHIJKLMNOPQRSTUVWXYZ"
LowerCaseLetters == "abcdefghijklmnopqrstuvwxyz"

\* The letter at the same position of the other alphabet
UpperToLower ==
    [c \in {SubSeq(UpperCaseLetters, i, i) : i \in 1..26} |->
        LET i == CHOOSE j \in 1..26 : SubSeq(UpperCaseLetters, j, j) = c
        IN  SubSeq(LowerCaseLetters, i, i)]

LowerToUpper ==
    [c \in {SubSeq(LowerCaseLetters, i, i) : i \in 1..26} |->
        LET i == CHOOSE j \in 1..26 : SubSeq(LowerCaseLetters, j, j) = c
        IN  SubSeq(UpperCaseLetters, i, i)]

\* String.prototype.toLowerCase on one character
LowerChar(c) == IF c \in DOMAIN UpperToLower THEN UpperToLower[c] ELSE c

\* String.prototype.toLowerCase
RECURSIVE toLowerCase(_)
toLowerCase(s) ==
    IF s = "" THEN "" ELSE LowerChar(Head(s)) \o toLowerCase(Tail(s))

\* String.prototype.toUpperCase on one character
UpperChar(c) == IF c \in DOMAIN LowerToUpper THEN LowerToUpper[c] ELSE c

\* String.prototype.toUpperCase
RECURSIVE toUpperCase(_)
toUpperCase(s) ==
    IF s = "" THEN "" ELSE UpperChar(Head(s)) \o toUpperCase(Tail(s))

\* String.prototype.startsWith
startsWith(s, p) == Len(s) >= Len(p) /\ SubSeq(s, 1, Len(p)) = p

\* String.prototype.endsWith
endsWith(s, p) == Len(s) >= Len(p) /\ SubSeq(s, Len(s) - Len(p) + 1, Len(s)) = p

\* String.prototype.includes
includes(s, p) == \E i \in 0..(Len(s) - Len(p)) : SubSeq(s, i + 1, i + Len(p)) = p

\* String.prototype.substring(n): the string without its first n characters
substring(s, n) == SubSeq(s, n + 1, Len(s))

\* Array.prototype.join
RECURSIVE join(_, _)
join(strs, sep) ==
    IF strs = <<>> THEN ""
    ELSE IF Len(strs) = 1 THEN strs[1]
    ELSE strs[1] \o sep \o join(Tail(strs), sep)

\* Array.prototype.filter is SelectSeq; Array.prototype.some is \E over the
\* indices of the array.

-----------------------------------------------------------------------------
(* Constants and configuration, background.js:9-34 *)

RULE_WEIGHTS ==
    [https |-> 10, domainAge |-> 15, blacklistHit |-> 70,
     keyword |-> 10, suspiciousTld |-> 15, urlShortener |-> 10]

\* Object.entries(NIGERIAN_SCAM_PATTERNS), in insertion order
NIGERIAN_SCAM_PATTERNS ==
    << [category |-> "scholarship",
        keywords |-> <<"free-scholarship", "guaranteed-scholarship",
                       "instant-scholarship", "scholarship-winner">>],
       [category |-> "financial",
        keywords |-> <<"instant-money", "guaranteed-loan", "easy-cash",
                       "quick-loan", "nin", "bvn">>],
       [category |-> "government",
        keywords |-> <<"npower", "jamb-result", "waec-result",
                       "inec-recruitment", "nnpc-recruitment">>],
       [category |-> "urgency",
        keywords |-> <<"urgent", "limited-time", "expires-soon", "act-now",
                       "deadline-today">>] >>

SUSPICIOUS_PATTERNS ==
    <<"verify-account", "update-information", "confirm-identity",
      "security-alert", "account-suspended", "click-here-now",
      "work-from-home", "get-rich-quick", "Bank-Verification-Number",
      "payment-verification">>

SUSPICIOUS_TLDS == <<".tk", ".ml", ".ga", ".cf", ".pw", ".top", ".click">>

URL_SHORTENERS == <<"bit.ly", "tinyurl.com", "goo.gl", "t.co", "short.link">>

-----------------------------------------------------------------------------
(* Utility functions, background.js:55-76 *)

\* domain.replace(/^(https?:\/\/)?(www\.)?/, ''): the regex is case-sensitive
\* and both groups are optional and greedy.
stripSchemeAndWww(d) ==
    LET afterScheme ==
            IF startsWith(d, "https://") THEN substring(d, 8)
            ELSE IF startsWith(d, "http://") THEN substring(d, 7)
            ELSE d
    IN  IF startsWith(afterScheme, "www.") THEN substring(afterScheme, 4)
        ELSE afterScheme

\* cleanDomain throws a TypeError when its argument is not a string
cleanDomainThrows(d) == ~IsString(d)

cleanDomain(d) == toLowerCase(stripSchemeAndWww(d))

domainMatchesThrows(current, list) ==
    cleanDomainThrows(current) \/ cleanDomainThrows(list)

\* domainMatches without its exact-match test (line 64)
domainMatches_NoExact(current, list) ==
    LET cleanCurrent == cleanDomain(current)
        cleanList == cleanDomain(list)
    IN  IF endsWith(cleanCurrent, "." \o cleanList) THEN TRUE
        ELSE IF startsWith(cleanList, "*.")
             THEN LET baseDomain == substring(cleanList, 2)
                  IN  endsWith(cleanCurrent, "." \o baseDomain)
                      \/ cleanCurrent = baseDomain
        ELSE FALSE

\* domainMatches whose subdomain test forgets the separating dot (line 67)
domainMatches_NoDot(current, list) ==
    LET cleanCurrent == cleanDomain(current)
        cleanList == cleanDomain(list)
    IN  IF cleanCurrent = cleanList THEN TRUE
        ELSE IF endsWith(cleanCurrent, cleanList) THEN TRUE
        ELSE IF startsWith(cleanList, "*.")
             THEN LET baseDomain == substring(cleanList, 2)
                  IN  endsWith(cleanCurrent, "." \o baseDomain)
                      \/ cleanCurrent = baseDomain
        ELSE FALSE

\* The value domainMatches returns when it does not throw
domainMatches(current, list) ==
    LET cleanCurrent == cleanDomain(current)
        cleanList == cleanDomain(list)
    IN  IF cleanCurrent = cleanList THEN TRUE
        ELSE IF endsWith(cleanCurrent, "." \o cleanList) THEN TRUE
        ELSE IF startsWith(cleanList, "*.")
             THEN LET baseDomain == substring(cleanList, 2)
                  IN  endsWith(cleanCurrent, "." \o baseDomain)
                      \/ cleanCurrent = baseDomain
        ELSE FALSE

-----------------------------------------------------------------------------
(* Security analysis engine, background.js:141-213 *)

\* The result before any call has returned
Pending == [score |-> 0, status |-> "pending", issues |-> <<>>]

\* classify with strict comparisons
classify_Strict(score) ==
    IF score > 70 THEN "danger"
    ELSE IF score > 40 THEN "warning"
    ELSE "safe"

\* background.js:207-210: status from score
classify(score) ==
    IF score >= 70 THEN "danger"
    ELSE IF score >= 40 THEN "warning"
    ELSE "safe"

\* background.js:147-150
httpsCheck(u, acc) ==
    IF ~startsWith(u, "https://")
    THEN [score |-> acc.score + RULE_WEIGHTS.https,
          issues |-> Append(acc.issues, "No HTTPS encryption")]
    ELSE acc

\* background.js:153-157: find returns the first entry that matches
suspiciousTldCheck(d, acc) ==
    LET found == SelectSeq(SUSPICIOUS_TLDS, LAMBDA tld : endsWith(d, tld))
    IN  IF found # <<>>
        THEN [score |-> acc.score + RULE_WEIGHTS.suspiciousTld,
              issues |-> Append(acc.issues,
                                "Suspicious domain extension: " \o Head(found))]
        ELSE acc

\* urlShortenerCheck adding the weight once per shortener found in the domain
urlShortenerCheck_PerEntry(d, acc) ==
    LET found == SelectSeq(URL_SHORTENERS, LAMBDA shortener : includes(d, shortener))
    IN  IF found # <<>>
        THEN [score |-> acc.score + Len(found) * RULE_WEIGHTS.urlShortener,
              issues |-> Append(acc.issues, "URL shortener detected")]
        ELSE acc

\* background.js:160-163
urlShortenerCheck(d, acc) ==
    IF \E i \in 1..Len(URL_SHORTENERS) : includes(d, URL_SHORTENERS[i])
    THEN [score |-> acc.score + RULE_WEIGHTS.urlShortener,
          issues |-> Append(acc.issues, "URL shortener detected")]
    ELSE acc

\* blacklistCheck putting its issue at the front of the list (unshift)
blacklistCheck_Unshift(d, acc) ==
    IF \E i \in 1..Len(blacklist) : domainMatches(d, blacklist[i])
    THEN [score |-> acc.score + RULE_WEIGHTS.blacklistHit,
          issues |-> <<"Domain is blacklisted">> \o acc.issues]
    ELSE acc

\* blacklistCheck looking the domain up literally instead of matching it
blacklistCheck_Literal(d, acc) ==
    IF \E i \in 1..Len(blacklist) : blacklist[i] = d
    THEN [score |-> acc.score + RULE_WEIGHTS.blacklistHit,
          issues |-> Append(acc.issues, "Domain is blacklisted")]
    ELSE acc

\* background.js:166-169
blacklistCheck(d, acc) ==
    IF \E i \in 1..Len(blacklist) : domainMatches(d, blacklist[i])
    THEN [score |-> acc.score + RULE_WEIGHTS.blacklistHit,
          issues |-> Append(acc.issues, "Domain is blacklisted")]
    ELSE acc

\* isWhitelisted that a blacklist hit switches off
isWhitelisted_UnlessBlacklisted(d) ==
    /\ (\E i \in 1..Len(whitelist) : domainMatches(d, whitelist[i]))
    /\ ~(\E i \in 1..Len(blacklist) : domainMatches(d, blacklist[i]))

\* background.js:172
isWhitelisted(d) == \E i \in 1..Len(whitelist) : domainMatches(d, whitelist[i])

\* foundKeywordsOf collecting the content matches and the URL matches separately
foundKeywordsOf_Twice(keywords, lowerContent, lowerUrl) ==
    SelectSeq(keywords, LAMBDA keyword : includes(lowerContent, keyword))
        \o SelectSeq(keywords, LAMBDA keyword : includes(lowerUrl, keyword))

\* background.js:181-183
foundKeywordsOf(keywords, lowerContent, lowerUrl) ==
    SelectSeq(keywords,
           LAMBDA keyword : includes(lowerContent, keyword) \/ includes(lowerUrl, keyword))

\* background.js:180-190: the forEach over the categories, from entry i on
RECURSIVE keywordDetection(_, _, _, _)
keywordDetection(i, lowerContent, lowerUrl, acc) ==
    IF i > Len(NIGERIAN_SCAM_PATTERNS) THEN acc
    ELSE LET entry == NIGERIAN_SCAM_PATTERNS[i]
             foundKeywords == foundKeywordsOf(entry.keywords, lowerContent, lowerUrl)
             next ==
                 IF Len(foundKeywords) > 0
                 THEN [score |-> acc.score + Len(foundKeywords) * RULE_WEIGHTS.keyword,
                       issues |-> Append(acc.issues,
                                         entry.category \o " scam indicators: "
                                             \o join(foundKeywords, ", "))]
                 ELSE acc
         IN  keywordDetection(i + 1, lowerContent, lowerUrl, next)

\* suspiciousPatternCheck assigning the score (=) where the code adds (+=)
suspiciousPatternCheck_Assign(lowerContent, lowerUrl, acc) ==
    LET foundSuspicious == foundKeywordsOf(SUSPICIOUS_PATTERNS, lowerContent, lowerUrl)
    IN  IF Len(foundSuspicious) > 0
        THEN [score |-> Len(foundSuspicious) * 3,
              issues |-> Append(acc.issues,
                                "Phishing indicators: " \o join(foundSuspicious, ", "))]
        ELSE acc

\* background.js:193-200
suspiciousPatternCheck(lowerContent, lowerUrl, acc) ==
    LET foundSuspicious == foundKeywordsOf(SUSPICIOUS_PATTERNS, lowerContent, lowerUrl)
    IN  IF Len(foundSuspicious) > 0
        THEN [score |-> acc.score + Len(foundSuspicious) * 3,
              issues |-> Append(acc.issues,
                                "Phishing indicators: " \o join(foundSuspicious, ", "))]
        ELSE acc

\* The catch block with "score = 0" before the push
catchBlock_ResetScore(acc) ==
    [score |-> 0, issues |-> Append(acc.issues, "Error during analysis")]

\* background.js:202-205: the catch block keeps score and detectedIssues as
\* the try block left them and adds one issue
catchBlock(acc) ==
    [score |-> acc.score, issues |-> Append(acc.issues, "Error during analysis")]

\* A version whose status is chosen inside the try block: the catch path
\* returns the initial status
calculateHeuristicScore_StatusInTry(u, c, d) ==
    LET start == [score |-> 0, issues |-> <<>>]
        beforeWhitelist ==
            blacklistCheck(d, urlShortenerCheck(d, suspiciousTldCheck(d, httpsCheck(u, start))))
    IN  IF isWhitelisted(d)
        THEN [score |-> 0, status |-> "safe", issues |-> <<"Domain is whitelisted">>]
        ELSE IF ~IsString(c)
        THEN LET caught == catchBlock(beforeWhitelist)
             IN  [score |-> caught.score, status |-> "safe", issues |-> caught.issues]
        ELSE LET lowerContent == toLowerCase(c)
                 lowerUrl == toLowerCase(u)
                 tried == suspiciousPatternCheck(lowerContent, lowerUrl,
                              keywordDetection(1, lowerContent, lowerUrl, beforeWhitelist))
             IN  [score |-> tried.score, status |-> classify(tried.score),
                  issues |-> tried.issues]

\* background.js:141-213.  url and domain are strings (both callers take
\* domain from new URL(url).hostname); content is whatever the message held.
calculateHeuristicScore(u, c, d) ==
    LET start == [score |-> 0, issues |-> <<>>]
        beforeWhitelist ==
            blacklistCheck(d, urlShortenerCheck(d, suspiciousTldCheck(d, httpsCheck(u, start))))
    IN  IF isWhitelisted(d)
        THEN [score |-> 0, status |-> "safe", issues |-> <<"Domain is whitelisted">>]
        ELSE LET tried ==
                     IF ~IsString(c)
                     \* content.toLowerCase() throws at line 177
                     THEN catchBlock(beforeWhitelist)
                     ELSE LET lowerContent == toLowerCase(c)
                              lowerUrl == toLowerCase(u)
                          IN  suspiciousPatternCheck(lowerContent, lowerUrl,
                                  keywordDetection(1, lowerContent, lowerUrl, beforeWhitelist))
             IN  [score |-> tried.score, status |-> classify(tried.score),
                  issues |-> tried.issues]

-----------------------------------------------------------------------------
(* Blocking system, background.js:313-394 *)

\* The characters of list entries and URLs that encodeURIComponent escapes;
\* letters, digits and - _ . ! ~ * ' ( ) are kept
escapeOf ==
    (":" :> "%3A") @@ ("/" :> "%2F") @@ ("?" :> "%3F") @@ ("=" :> "%3D")
        @@ ("&" :> "%26") @@ ("%" :> "%25") @@ (" " :> "%20")

\* encodeURIComponent
RECURSIVE encodeURIComponent(_)
encodeURIComponent(s) ==
    IF s = "" THEN ""
    ELSE (IF Head(s) \in DOMAIN escapeOf THEN escapeOf[Head(s)] ELSE Head(s))
             \o encodeURIComponent(Tail(s))

\* background.js:369: the offset of the id of a www rule
wwwIdOffset == 1000

\* background.js:349-360 and 368-379: the rule object pushed
redirectRule(id, urlFilter, d) ==
    [id |-> id,
     priority |-> 1,
     action |-> [type |-> "redirect",
                 redirect |-> [extensionPath |->
                                  "/blocked.html?url=" \o encodeURIComponent(d)]],
     condition |-> [urlFilter |-> urlFilter, resourceTypes |-> <<"main_frame">>]]

\* compileEntry skipping an entry only when the whitelist holds it literally
compileEntry_LiteralWhitelist(d, index, wl) ==
    IF \E i \in 1..Len(wl) : wl[i] = d THEN <<>>
    ELSE LET cleanedDomain == cleanDomain(d)
             urlFilter ==
                 IF startsWith(cleanedDomain, "*.")
                 THEN "*://*." \o substring(cleanedDomain, 2) \o "/*"
                 ELSE "*://" \o cleanedDomain \o "/*"
         IN  <<redirectRule(index + 1, urlFilter, d)>>
                 \o (IF ~startsWith(cleanedDomain, "*.")
                     THEN <<redirectRule(index + wwwIdOffset,
                                         "*://www." \o cleanedDomain \o "/*", d)>>
                     ELSE <<>>)

\* background.js:335-381: the body of the forEach for the entry d at the
\* 0-based position index; the rules it pushes
compileEntry(d, index, wl) ==
    IF \E i \in 1..Len(wl) : domainMatches(d, wl[i]) THEN <<>>
    ELSE LET cleanedDomain == cleanDomain(d)
             urlFilter ==
                 IF startsWith(cleanedDomain, "*.")
                 THEN "*://*." \o substring(cleanedDomain, 2) \o "/*"
                 ELSE "*://" \o cleanedDomain \o "/*"
         IN  <<redirectRule(index + 1, urlFilter, d)>>
                 \o (IF ~startsWith(cleanedDomain, "*.")
                     THEN <<redirectRule(index + wwwIdOffset,
                                         "*://www." \o cleanedDomain \o "/*", d)>>
                     ELSE <<>>)

\* background.js:333-382: newRules after blacklist.forEach.  Every entry
\* pushes at most two rules; slot 2k-1 holds the first and slot 2k the
\* second rule the entry at 1-based position k pushed, and newRules is the
\* slots that are filled, in order.
compileRules(bl, wl) ==
    LET pushed(k) == compileEntry(bl[k], k - 1, wl)
        slots == [s \in 1..(2 * Len(bl)) |->
                     LET k == (s + 1) \div 2
                         j == IF s % 2 = 1 THEN 1 ELSE 2
                     IN  IF j <= Len(pushed(k)) THEN <<pushed(k)[j]>> ELSE <<>>]
        filled == SelectSeq(slots, LAMBDA slot : slot # <<>>)
    IN  [a \in 1..Len(filled) |-> filled[a][1]]

\* ruleIdsOf leaving the www rules out
ruleIdsOf_MainOnly(rules) == {rule.id : rule \in {r \in rules : r.id < wwwIdOffset}}

\* background.js:321: existingRules.map(rule => rule.id)
ruleIdsOf(rules) == {rule.id : rule \in rules}

\* chrome.declarativeNetRequest.updateDynamicRules({addRules}): the call is
\* rejected as a whole when two of the rules, or one of them and an installed
\* rule, have the same id
addAccepted(newRules) ==
    LET newIds == {newRules[a].id : a \in 1..Len(newRules)}
    IN  /\ Cardinality(newIds) = Len(newRules)
        /\ newIds \cap {rule.id : rule \in dynamicRules} = {}

\* The browser's matching of a rule's urlFilter (the filters built at
\* background.js:352 and 364) against a request URL: * stands for any run of
\* characters, every other character for itself, and a filter that carries
\* no anchor may match anywhere in the URL.
RECURSIVE globMatchesAt(_, _)
globMatchesAt(filter, s) ==
    IF filter = "" THEN TRUE
    ELSE IF Head(filter) = "*"
    THEN \E k \in 0..Len(s) : globMatchesAt(Tail(filter), substring(s, k))
    ELSE /\ s # ""
         /\ Head(s) = Head(filter)
         /\ globMatchesAt(Tail(filter), Tail(s))

urlFilterMatches(filter, requestUrl) ==
    \E k \in 0..Len(requestUrl) : globMatchesAt(filter, substring(requestUrl, k))

\* A declarativeNetRequest call of invocation i
dnrCall(i, method, removeRuleIds, addRules) ==
    [update |-> i, method |-> method, removeRuleIds |-> removeRuleIds,
     addRules |-> addRules]

\* background.js:319: updateBlockingRules up to its first await
startedUpdate(alone) ==
    [pc |-> "getDynamicRules", outcome |-> "running", ruleIdsToRemove |-> {},
     newRules |-> <<>>, alone |-> alone]

\* background.js:330-388: from the check of the settings to the addRules
\* call, or to the return when there is nothing to add
afterRemoval(u) ==
    IF ~settings.blockingEnabled \/ Len(blacklist) = 0
    THEN [u EXCEPT !.pc = "done", !.outcome = "returned"]
    ELSE LET newRules == compileRules(blacklist, whitelist)
         IN  IF Len(newRules) > 0
             THEN [u EXCEPT !.pc = "addRules", !.newRules = newRules]
             ELSE [u EXCEPT !.pc = "done", !.outcome = "updated"]

\* background.js:319-393: invocation u resumed when the call it awaits has
\* completed; ok is false when the call was rejected (catch, line 391)
resumedUpdate(u, ok) ==
    IF ~ok THEN [u EXCEPT !.pc = "done", !.outcome = "error"]
    ELSE IF u.pc = "getDynamicRules"
    THEN LET ruleIdsToRemove == ruleIdsOf(dynamicRules)
         IN  IF Cardinality(ruleIdsToRemove) > 0
             THEN [u EXCEPT !.pc = "removeRules", !.ruleIdsToRemove = ruleIdsToRemove]
             ELSE afterRemoval(u)
    ELSE IF u.pc = "removeRules" THEN afterRemoval(u)
    ELSE [u EXCEPT !.pc = "done", !.outcome = "updated"]

-----------------------------------------------------------------------------
(* Inputs of the scoring specification *)

\* background.js:40-46
defaultSettings ==
    [theme |-> "light", alertsEnabled |-> TRUE, blockingEnabled |-> FALSE,
     systemLang |-> "en-NG", alertLang |-> "en"]

\* Longest whitelist / blacklist drawn
MaxListLen == 1

Schemes == {"http://", "https://"}

Hosts == {"example.com", "scam.example", "www.scam.example",
          "free-scholarship-ng.tk", "bit.ly.t.co"}

Paths == {"/", "/apply?offer=act-now"}

Contents ==
    { Undefined,
      "",
      "Win a GUARANTEED-SCHOLARSHIP today, send your BVN",
      "verify-account update-information confirm-identity nin bvn",
      "urgent: verify-account, update-information, confirm-identity. npower nin bvn easy-cash",
      "quick-loan bvn urgent",
      "Bank-Verification-Number required",
      "free-scholarship for all",
      "e-learning portal" }

ListEntries == {"scam.example", "*.example.com"}

ListsUpTo(n) == UNION {[1..k -> ListEntries] : k \in 0..n}

Lists == ListsUpTo(MaxListLen)

InitSecondIdle ==
    /\ url2 = ""
    /\ content2 = ""
    /\ analysis2 = [score |-> 0, status |-> "idle", issues |-> <<>>]

InitRulesIdle ==
    /\ dynamicRules = {}
    /\ callQueue = <<>>
    /\ updates = <<>>

InitMatchIdle ==
    /\ currentDomain = ""
    /\ listDomain = ""
    /\ matchResult = "idle"

\* The browser's tabs
TabIds == {1, 2}

\* No handler has run, nothing is stored and no tab shows a page
InitWorkerIdle ==
    /\ tasks = <<>>
    /\ tabs = [t \in TabIds |-> "about:blank"]
    /\ activeTab = 1
    /\ storage = <<>>
    /\ notifications = {}
    /\ response = [details |-> [url |-> "", type |-> ""], redirectUrl |-> ""]
    /\ now = 0
    /\ cleanup = [pc |-> "idle", storage |-> <<>>, next |-> 0]

\* content.js:8-13, no timeout set
InitPageIdle ==
    /\ isAnalyzing = FALSE
    /\ lastAnalysisTime = 0
    /\ analysisTimer = 0
    /\ debounceTimers = {}
    /\ burst = 0
    /\ timers = {}
    /\ executions = <<>>

\* The popup and the blocked page are closed, no message is in flight
InitExtensionIdle ==
    /\ popup = [pc |-> "closed"]
    /\ inbox = <<>>
    /\ blockedPage = [pc |-> "closed"]
    /\ whitelistCalls = <<>>

Init ==
    /\ settings = defaultSettings
    /\ blacklist \in Lists
    /\ whitelist \in Lists
    /\ \E scheme \in Schemes, host \in Hosts, path \in Paths :
          /\ url = scheme \o host \o path
          /\ domain = host
    /\ content \in Contents
    /\ analysis = Pending
    /\ InitSecondIdle
    /\ InitRulesIdle
    /\ InitMatchIdle
    /\ InitWorkerIdle
    /\ InitPageIdle
    /\ InitExtensionIdle

\* A call that also puts a domain it found dangerous on the blacklist
Score_BlacklistsDanger ==
    /\ analysis = Pending
    /\ analysis' = calculateHeuristicScore(url, content, domain)
    /\ blacklist' = IF analysis'.status = "danger" /\ ~isWhitelisted(domain)
                    THEN Append(blacklist, domain) ELSE blacklist
    /\ UNCHANGED <<settings, whitelist, url, content, domain, secondVars,
                   ruleVars, matchVars, workerVars, pageVars, extensionVars>>

\* One call of calculateHeuristicScore(url, content, domain)
Score ==
    /\ analysis = Pending
    /\ analysis' = calculateHeuristicScore(url, content, domain)
    /\ UNCHANGED <<settings, blacklist, whitelist, url, content, domain,
                   secondVars, ruleVars, matchVars, workerVars, pageVars, extensionVars>>

Next == Score

Spec == Init /\ [][Next]_vars

-----------------------------------------------------------------------------
(* Two scans of one domain against the same lists *)

MonoHosts == {"example.com", "scam.example"}

MonoContents ==
    { Undefined,
      "",
      "verify-account",
      "verify-account update-information",
      "quick-loan",
      "quick-loan bvn urgent" }

MonoLists == {<<>>, <<"scam.example">>}

InitMono ==
    /\ settings = defaultSettings
    /\ blacklist \in MonoLists
    /\ whitelist \in MonoLists
    /\ \E host \in MonoHosts, scheme \in Schemes, path \in Paths,
          scheme2 \in Schemes, path2 \in Paths :
          /\ domain = host
          /\ url = scheme \o host \o path
          /\ url2 = scheme2 \o host \o path2
    /\ content \in MonoContents
    /\ content2 \in MonoContents
    /\ analysis = Pending
    /\ analysis2 = Pending
    /\ InitRulesIdle
    /\ InitMatchIdle
    /\ InitWorkerIdle
    /\ InitPageIdle
    /\ InitExtensionIdle

\* The second call calculateHeuristicScore(url2, content2, domain), made
\* after the first has returned
ScoreSecond ==
    /\ analysis # Pending
    /\ analysis2 = Pending
    /\ analysis2' = calculateHeuristicScore(url2, content2, domain)
    /\ UNCHANGED <<settings, blacklist, whitelist, url, content, domain, analysis,
                   url2, content2, ruleVars, matchVars, workerVars, pageVars, extensionVars>>

NextMono == Score \/ ScoreSecond

SpecMono == InitMono /\ [][NextMono]_vars

-----------------------------------------------------------------------------
(* Inputs of the domain matching specification *)

MatchBases == {"example.com", "notexample.com", "a.b.example.com",
               "*.example.com", "scam.example"}

MatchPrefixes == {"", "www.", "WWW.", "https://", "http://www."}

\* Strings as they occur in lists and messages, and the values that are not
\* strings
MatchInputs ==
    {p \o b : p \in MatchPrefixes, b \in MatchBases}
        \cup {p \o toUpperCase(b) : p \in MatchPrefixes, b \in MatchBases}
        \cup {"WWW.Example.com", "", Undefined}

InitScanIdle ==
    /\ settings = defaultSettings
    /\ blacklist = <<>>
    /\ whitelist = <<>>
    /\ url = ""
    /\ content = ""
    /\ domain = ""
    /\ analysis = [score |-> 0, status |-> "idle", issues |-> <<>>]
    /\ InitSecondIdle
    /\ InitRulesIdle

InitMatch ==
    /\ currentDomain \in MatchInputs
    /\ listDomain \in MatchInputs
    /\ matchResult = "pending"
    /\ InitScanIdle
    /\ InitWorkerIdle
    /\ InitPageIdle
    /\ InitExtensionIdle

\* One call of domainMatches(currentDomain, listDomain)
Match ==
    /\ matchResult = "pending"
    /\ matchResult' =
          IF domainMatchesThrows(currentDomain, listDomain) THEN "TypeError"
          ELSE IF domainMatches(currentDomain, listDomain) THEN "true"
          ELSE "false"
    /\ UNCHANGED <<currentDomain, listDomain, scanVars, secondVars, ruleVars,
                   workerVars, pageVars, extensionVars>>

NextMatch == Match

SpecMatch == InitMatch /\ [][NextMatch]_vars

-----------------------------------------------------------------------------
(* The service worker loading its data, receiving updateSettings messages   *)
(* and running updateBlockingRules.  The browser completes the              *)
(* declarativeNetRequest calls in the order they were issued; a completed   *)
(* call resumes the invocation that awaits it, which runs to its next await. *)

\* Most invocations of updateBlockingRules started in one run
MaxUpdates == 2

\* Settings objects as the popup and the storage hold them
StoredSettings ==
    {[defaultSettings EXCEPT !.blockingEnabled = b] : b \in BOOLEAN}

RuleBlacklists ==
    {<<>>, <<"scam.example">>, <<"*.example.com", "scam.example">>,
     <<"https://www.scam.example">>}

RuleWhitelists == {<<>>, <<"scam.example">>, <<"safe.example.com">>}

\* Dynamic rules persist across sessions: the rules an earlier session left
EarlierRules ==
    {{}} \cup {{compileRules(bl, <<>>)[k] : k \in 1..Len(compileRules(bl, <<>>))} :
                  bl \in {<<"scam.example">>, <<"*.example.com", "scam.example">>}}

InitCallIdle ==
    /\ url = ""
    /\ content = ""
    /\ domain = ""
    /\ analysis = [score |-> 0, status |-> "idle", issues |-> <<>>]

\* background.js:40-49 and the rules the browser kept
InitRules ==
    /\ settings = defaultSettings
    /\ blacklist = <<>>
    /\ whitelist = <<>>
    /\ dynamicRules \in EarlierRules
    /\ callQueue = <<>>
    /\ updates = <<>>
    /\ InitCallIdle
    /\ InitSecondIdle
    /\ InitMatchIdle
    /\ InitWorkerIdle
    /\ InitPageIdle
    /\ InitExtensionIdle

\* background.js:313-319: updateBlockingRules is called and runs to its first
\* await; an invocation still running is no longer alone
startUpdate ==
    /\ updates' =
          Append([k \in 1..Len(updates) |->
                     IF updates[k].pc # "done"
                     THEN [updates[k] EXCEPT !.alone = FALSE] ELSE updates[k]],
                 startedUpdate(\A k \in 1..Len(updates) : updates[k].pc = "done"))
    /\ callQueue' = Append(callQueue, dnrCall(Len(updates) + 1, "getDynamicRules", {}, <<>>))

\* background.js:116-127, called at 647 and at 643: loadStoredData once
\* chrome.storage.local.get has answered; a key that is not stored leaves the
\* variable as it is
LoadStoredData ==
    /\ Len(updates) < MaxUpdates
    /\ settings' \in StoredSettings \cup {settings}
    /\ blacklist' \in RuleBlacklists \cup {blacklist}
    /\ whitelist' \in RuleWhitelists \cup {whitelist}
    /\ startUpdate
    /\ UNCHANGED <<dynamicRules, url, content, domain, analysis, secondVars, matchVars,
                   workerVars, pageVars, extensionVars>>

\* background.js:530-536: the message updateSettings / updateBlockingRules; a
\* field the message lacks leaves the variable as it is
UpdateSettingsMessage ==
    /\ Len(updates) < MaxUpdates
    /\ settings' \in StoredSettings \cup {settings}
    /\ blacklist' \in RuleBlacklists \cup {blacklist}
    /\ whitelist' \in RuleWhitelists \cup {whitelist}
    /\ startUpdate
    /\ UNCHANGED <<dynamicRules, url, content, domain, analysis, secondVars, matchVars,
                   workerVars, pageVars, extensionVars>>

\* The browser completes the oldest call, accepting or rejecting it, and the
\* invocation awaiting it runs on (background.js:319-393)
BrowserCompletes ==
    /\ callQueue # <<>>
    /\ \E rejects \in BOOLEAN :
          LET call == Head(callQueue)
              ok == /\ ~rejects
                    /\ call.method = "addRules" => addAccepted(call.addRules)
          IN  \E u \in {resumedUpdate(updates[call.update], ok)} :
                  LET issued ==
                          IF u.pc = "removeRules"
                          THEN <<dnrCall(call.update, "removeRules",
                                         u.ruleIdsToRemove, <<>>)>>
                          ELSE IF u.pc = "addRules" /\ call.method # "addRules"
                          THEN <<dnrCall(call.update, "addRules", {}, u.newRules)>>
                          ELSE <<>>
                  IN  /\ dynamicRules' =
                            IF ~ok THEN dynamicRules
                            ELSE IF call.method = "removeRules"
                            THEN {rule \in dynamicRules : rule.id \notin call.removeRuleIds}
                            ELSE IF call.method = "addRules"
                            THEN dynamicRules
                                     \cup {call.addRules[k] : k \in 1..Len(call.addRules)}
                            ELSE dynamicRules
                      /\ updates' = [updates EXCEPT ![call.update] = u]
                      /\ callQueue' = Tail(callQueue) \o issued
    /\ UNCHANGED <<settings, blacklist, whitelist, url, content, domain, analysis,
                   secondVars, matchVars, workerVars, pageVars, extensionVars>>

NextRules == LoadStoredData \/ UpdateSettingsMessage \/ BrowserCompletes

SpecRules == InitRules /\ [][NextRules]_vars

-----------------------------------------------------------------------------
(* updateBlockingRules on a long blacklist *)

\* Longest blacklist loaded
MaxBlacklistLen == 1000

\* Number of blacklist lengths tried, the longest being MaxBlacklistLen
BlacklistLengths == 30

\* A blacklist of n different domains
LongBlacklist(n) == [k \in 1..n |-> "site" \o ToString(k) \o ".example"]

\* The state loadStoredData leaves (background.js:116-123) when the storage
\* holds a long blacklist and blocking is switched on: updateBlockingRules has
\* run to its first await
InitIds ==
    /\ settings = [defaultSettings EXCEPT !.blockingEnabled = TRUE]
    /\ \E n \in (MaxBlacklistLen - BlacklistLengths + 1)..MaxBlacklistLen :
          blacklist = LongBlacklist(n)
    /\ whitelist = <<>>
    /\ dynamicRules = {}
    /\ updates = <<startedUpdate(TRUE)>>
    /\ callQueue = <<dnrCall(1, "getDynamicRules", {}, <<>>)>>
    /\ InitCallIdle
    /\ InitSecondIdle
    /\ InitMatchIdle
    /\ InitWorkerIdle
    /\ InitPageIdle
    /\ InitExtensionIdle

NextIds == BrowserCompletes

SpecIds == InitIds /\ [][NextIds]_vars

-----------------------------------------------------------------------------
(* The blocking decisions the service worker takes when a tab navigates and *)
(* when a request starts (background.js:78-110 and 575-628).                *)

\* String.prototype.indexOf, -1 when p does not occur in s
indexOf(s, p) ==
    LET at == {i \in 0..(Len(s) - Len(p)) : SubSeq(s, i + 1, i + Len(p)) = p}
    IN  IF at = {} THEN -1 ELSE CHOOSE i \in at : \A j \in at : i <= j

\* new URL(u) throws unless u starts with a scheme
UrlParses(u) == IsString(u) /\ indexOf(u, ":") > 0

\* new URL(u).hostname: what stands between :// and the next / ? or #, in
\* lower case; empty when the URL has no authority (about:blank)
hostnameOf(u) ==
    LET from == indexOf(u, "://")
        rest == IF from < 0 THEN "" ELSE substring(u, from + 3)
        ends == {i \in 1..Len(rest) : SubSeq(rest, i, i) \in {"/", "?", "#"}}
        stop == IF ends = {} THEN Len(rest) + 1
                ELSE CHOOSE i \in ends : \A j \in ends : i <= j
    IN  toLowerCase(SubSeq(rest, 1, stop - 1))

\* chrome.runtime.getURL
getURL(path) == "chrome-extension://fountainscan/" \o path

\* background.js:78-86 with the two list tests exchanged
shouldBlockDomain_BlacklistFirst(d) ==
    IF ~settings.blockingEnabled THEN FALSE
    ELSE IF \E i \in 1..Len(blacklist) : domainMatches(d, blacklist[i]) THEN TRUE
    ELSE FALSE

\* background.js:78-86
shouldBlockDomain(d) ==
    IF ~settings.blockingEnabled THEN FALSE
    ELSE IF \E i \in 1..Len(whitelist) : domainMatches(d, whitelist[i]) THEN FALSE
    ELSE \E i \in 1..Len(blacklist) : domainMatches(d, blacklist[i])

\* background.js:89-92
allPatterns ==
    NIGERIAN_SCAM_PATTERNS[1].keywords \o NIGERIAN_SCAM_PATTERNS[2].keywords
        \o NIGERIAN_SCAM_PATTERNS[3].keywords \o NIGERIAN_SCAM_PATTERNS[4].keywords
        \o SUSPICIOUS_PATTERNS

\* scanUrlForPatterns calling a URL dangerous from its first pattern on
scanUrlForPatterns_OnePattern(u) ==
    LET lowerUrl == toLowerCase(u)
        foundPatterns == SelectSeq(allPatterns, LAMBDA pattern : includes(lowerUrl, pattern))
        score == 2 * Len(foundPatterns)
    IN  [score |-> score, foundPatterns |-> foundPatterns, isDangerous |-> score >= 2]

\* background.js:88-110
scanUrlForPatterns(u) ==
    LET lowerUrl == toLowerCase(u)
        foundPatterns == SelectSeq(allPatterns, LAMBDA pattern : includes(lowerUrl, pattern))
        score == 2 * Len(foundPatterns)
    IN  [score |-> score, foundPatterns |-> foundPatterns, isDangerous |-> score >= 4]

\* chrome.storage.local.set({[key]: value}) applied to the stored content st
storageSet(st, key, value) ==
    [k \in DOMAIN st \cup {key} |-> IF k = key THEN value ELSE st[k]]

\* URLs tabs navigate to and requests are made for
NavUrls ==
    {"http://scam.example/",
     "https://www.scam.example/apply?offer=act-now",
     "https://safe.example.com/login",
     "http://free-scholarship-ng.tk/apply?offer=act-now",
     "https://example.com/URGENT-Quick-Loan",
     "about:blank"}

NavBlacklists == {<<>>, <<"scam.example">>, <<"*.example.com">>}

NavWhitelists == {<<>>, <<"scam.example">>, <<"*.example.com">>}

\* The worker with its settings and lists loaded, every tab on a blank page
InitNav ==
    /\ settings \in StoredSettings
    /\ blacklist \in NavBlacklists
    /\ whitelist \in NavWhitelists
    /\ InitCallIdle
    /\ InitSecondIdle
    /\ InitRulesIdle
    /\ InitMatchIdle
    /\ InitWorkerIdle
    /\ InitPageIdle
    /\ InitExtensionIdle

\* background.js:575-591: tab tabId reports a change of status while it
\* shows tabUrl, and the chrome.tabs.onUpdated listener runs; a tab that
\* starts loading shows the URL it loads unless the listener redirects it
TabUpdated(tabId, status, tabUrl) ==
    LET redirects ==
            /\ status = "loading" /\ tabUrl # "" /\ settings.blockingEnabled
            /\ UrlParses(tabUrl)
            /\ shouldBlockDomain(toLowerCase(hostnameOf(tabUrl)))
        blockingUrl ==
            getURL("blocked.html") \o "?url=" \o encodeURIComponent(tabUrl)
                \o "&reason=Domain is blacklisted"
    IN  /\ status = "complete" => tabUrl = tabs[tabId]
        /\ tabs' = [tabs EXCEPT ![tabId] = IF redirects THEN blockingUrl ELSE tabUrl]
        /\ UNCHANGED <<scanVars, secondVars, ruleVars, matchVars, pageVars, extensionVars,
                       tasks, activeTab, storage, notifications, response, now, cleanup>>

TabUpdatedEvent ==
    \E tabId \in TabIds, status \in {"loading", "complete"}, tabUrl \in NavUrls :
        TabUpdated(tabId, status, tabUrl)

\* background.js:593-628: the chrome.webRequest.onBeforeRequest listener
\* called for a request; saveToStorage and updateBlockingRules are started
\* and not awaited
WebRequest(detailsUrl, type) ==
    \E d \in {toLowerCase(hostnameOf(detailsUrl))},
       scanResult \in {scanUrlForPatterns(detailsUrl)} :
    \E dangerous \in
           {/\ settings.blockingEnabled /\ type = "main_frame"
            /\ UrlParses(detailsUrl)
            /\ ~\E i \in 1..Len(whitelist) : domainMatches(d, whitelist[i])
            /\ scanResult.isDangerous} :
    \E adds \in
           {dangerous /\ ~\E i \in 1..Len(blacklist) : domainMatches(d, blacklist[i])} :
        LET blockingUrl ==
                getURL("blocked.html") \o "?url=" \o encodeURIComponent(detailsUrl)
                    \o "&reason=Suspicious patterns detected: "
                    \o join(scanResult.foundPatterns, ", ")
        IN  /\ adds => Len(updates) < MaxUpdates
            /\ blacklist' = IF adds THEN Append(blacklist, d) ELSE blacklist
            /\ storage' = IF adds THEN storageSet(storage, "blacklist", blacklist')
                           ELSE storage
            /\ IF adds THEN startUpdate ELSE UNCHANGED <<updates, callQueue>>
            /\ response' = [details |-> [url |-> detailsUrl, type |-> type],
                            redirectUrl |-> IF dangerous THEN blockingUrl ELSE ""]
            /\ UNCHANGED <<settings, whitelist, url, content, domain, analysis,
                           dynamicRules, secondVars, matchVars, pageVars, extensionVars,
                           tasks, tabs, activeTab, notifications, now, cleanup>>

WebRequestEvent ==
    \E detailsUrl \in NavUrls \ {"about:blank"}, type \in {"main_frame", "image"} :
        WebRequest(detailsUrl, type)

\* Tabs navigating
NextNav == TabUpdatedEvent

SpecNav == InitNav /\ [][NextNav]_vars

\* Requests starting, and the rule updates they start running on
NextRequest == WebRequestEvent \/ BrowserCompletes

SpecRequest == InitNav /\ [][NextRequest]_vars

-----------------------------------------------------------------------------
(* The asynchronous message handlers of the service worker                  *)
(* (background.js:396-451 and 515-562).  A handler runs from the message,   *)
(* or from the completion of the call it awaits, to its next await; the     *)
(* browser applies a storage, notification or tab call when it is issued    *)
(* and answers it later.  Other handlers run between the two.               *)

\* Most handler invocations in one run
MaxTasks == 1

\* The sender of a message that comes from an extension page has no tab
NoTab == 0

\* What a handler has done when it stops at an await: its own position and
\* the worker and browser state it leaves; starts tells that it has called
\* updateBlockingRules
effectOf(task) ==
    [task |-> task, blacklist |-> blacklist, storage |-> storage,
     notifications |-> notifications, tabs |-> tabs, starts |-> FALSE]

\* background.js:444-450: the snapshot is stored; sender.tab.id throws when
\* the sender has no tab
saveScan(e) ==
    IF e.task.senderTab = NoTab
    THEN [e EXCEPT !.task.pc = "done", !.task.outcome = "TypeError"]
    ELSE [e EXCEPT !.task.pc = "saveScan",
                   !.storage = storageSet(e.storage, "scan_" \o ToString(e.task.senderTab),
                                          [url |-> e.task.url, domain |-> e.task.domain,
                                           analysis |-> e.task.analysis,
                                           timestamp |-> now])]

\* handleTabBlocking has returned to the caller that awaits it
afterTabBlocking(e) ==
    IF e.task.type = "blockCurrentTab"
    THEN [e EXCEPT !.task.pc = "done", !.task.outcome = "returned"]
    ELSE saveScan(e)

\* background.js:407
callUpdateBlockingRules(e) ==
    [e EXCEPT !.starts = TRUE, !.task.pc = "updateRules", !.task.update = Len(updates) + 1]

\* handleTabBlocking pushing the hostname whatever the blacklist holds
handleTabBlocking_AlwaysPush(e) ==
    IF ~UrlParses(e.task.url) THEN afterTabBlocking(e)
    ELSE LET d == toLowerCase(hostnameOf(e.task.url))
             pushed == Append(e.blacklist, d)
         IN  [e EXCEPT !.blacklist = pushed,
                       !.storage = storageSet(e.storage, "blacklist", pushed),
                       !.task.pc = "saveBlacklist"]

\* background.js:396-407: handleTabBlocking to its first await
handleTabBlocking(e) ==
    IF ~UrlParses(e.task.url) THEN afterTabBlocking(e)
    ELSE LET d == toLowerCase(hostnameOf(e.task.url))
         IN  IF ~\E i \in 1..Len(e.blacklist) : domainMatches(d, e.blacklist[i])
             THEN LET pushed == Append(e.blacklist, d)
                  IN  [e EXCEPT !.blacklist = pushed,
                                !.storage = storageSet(e.storage, "blacklist", pushed),
                                !.task.pc = "saveBlacklist"]
             ELSE callUpdateBlockingRules(e)

\* background.js:439-450
afterNotification(e) ==
    IF settings.blockingEnabled /\ e.task.analysis.status = "danger"
           /\ e.task.senderTab # NoTab
    THEN handleTabBlocking(e)
    ELSE saveScan(e)

\* background.js:427-437 and 219-247: handlePageContent to its first await
handlePageContent(message, senderTab) ==
    LET d == hostnameOf(message.url)
        scored == calculateHeuristicScore(message.url, message.content, d)
        e == effectOf([type |-> "PAGE_CONTENT", pc |-> "start", outcome |-> "running",
                       url |-> message.url, domain |-> d, senderTab |-> senderTab,
                       analysis |-> scored,
                       reason |-> "Dangerous site detected - Score: "
                                     \o ToString(scored.score),
                       update |-> 0])
    IN  IF settings.alertsEnabled /\ scored.status # "safe"
        THEN [e EXCEPT !.task.pc = "notify",
                       !.notifications =
                           @ \cup {[domain |-> d, status |-> scored.status,
                                    score |-> scored.score]}]
        ELSE afterNotification(e)

\* The handler resumed when the call it awaits has completed
resumedTask(task) ==
    LET e == effectOf(task)
    IN  IF task.pc = "notify" THEN afterNotification(e)
        ELSE IF task.pc = "saveBlacklist" THEN callUpdateBlockingRules(e)
        ELSE IF task.pc = "updateRules" THEN [e EXCEPT !.task.pc = "queryTabs"]
        ELSE IF task.pc = "queryTabs"
        THEN [e EXCEPT !.task.pc = "updateTab",
                       !.tabs[activeTab] =
                           getURL("blocked.html") \o "?url=" \o encodeURIComponent(task.url)
                               \o "&reason=" \o encodeURIComponent(task.reason)]
        ELSE IF task.pc = "updateTab" THEN afterTabBlocking(e)
        ELSE [e EXCEPT !.task.pc = "done", !.task.outcome = "returned"]

\* The worker and browser state takes the values the handler leaves
Applies(e) ==
    /\ blacklist' = e.blacklist
    /\ storage' = e.storage
    /\ notifications' = e.notifications
    /\ tabs' = e.tabs
    /\ IF e.starts THEN Len(updates) < MaxUpdates /\ startUpdate
       ELSE UNCHANGED <<updates, callQueue>>
    /\ UNCHANGED <<settings, whitelist, url, content, domain, analysis, dynamicRules,
                   secondVars, matchVars, pageVars, extensionVars, activeTab, response, now, cleanup>>

\* Pages the tabs show
WorkerUrls == {"http://scam.example/apply?offer=act-now", "https://example.com/"}

\* Page texts the content script extracts
WorkerContents ==
    {"",
     "urgent: verify-account, update-information, confirm-identity. npower nin bvn easy-cash"}

WorkerSettings ==
    {[defaultSettings EXCEPT !.alertsEnabled = a, !.blockingEnabled = b] :
        a \in BOOLEAN, b \in BOOLEAN}

WorkerBlacklists == {<<>>, <<"scam.example">>}

WorkerWhitelists == {<<>>, <<"scam.example">>}

\* The worker with its settings loaded, tab 1 on a page of scam.example and
\* tab 2 on a page of example.com
InitWorker ==
    /\ settings \in WorkerSettings
    /\ blacklist \in WorkerBlacklists
    /\ whitelist = <<>>
    /\ tasks = <<>>
    /\ tabs = (1 :> "http://scam.example/apply?offer=act-now") @@ (2 :> "https://example.com/")
    /\ activeTab \in TabIds
    /\ storage = <<>>
    /\ notifications = {}
    /\ response = [details |-> [url |-> "", type |-> ""], redirectUrl |-> ""]
    /\ now = 1800000
    /\ cleanup = [pc |-> "idle", storage |-> <<>>, next |-> 0]
    /\ InitCallIdle
    /\ InitSecondIdle
    /\ InitRulesIdle
    /\ InitMatchIdle
    /\ InitPageIdle
    /\ InitExtensionIdle

\* background.js:517-519: a PAGE_CONTENT message arrives, from the content
\* script of a tab (content.js:424) or from a sender that has no tab
PageContentMessage ==
    /\ Len(tasks) < MaxTasks
    /\ \E senderTab \in TabIds \cup {NoTab}, u \in WorkerUrls, c \in WorkerContents :
          /\ senderTab # NoTab => u = tabs[senderTab]
          /\ \E e \in {handlePageContent([url |-> u, content |-> c], senderTab)} :
                /\ tasks' = Append(tasks, e.task)
                /\ Applies(e)

\* background.js:539-541: the popup asks to block the page of the active
\* tab; it does so only with blocking enabled and for a domain that no
\* whitelist entry matches (backend/server.js:497-503 and 527-534)
BlockCurrentTabMessage ==
    /\ Len(tasks) < MaxTasks
    /\ settings.blockingEnabled
    /\ tabs[activeTab] \in WorkerUrls
    /\ ~isWhitelisted(hostnameOf(tabs[activeTab]))
    /\ \E e \in {handleTabBlocking(effectOf(
                     [type |-> "blockCurrentTab", pc |-> "start", outcome |-> "running",
                      url |-> tabs[activeTab], domain |-> hostnameOf(tabs[activeTab]),
                      senderTab |-> NoTab,
                      analysis |-> [score |-> 0, status |-> "idle", issues |-> <<>>],
                      reason |-> "Insecure connection (HTTP)", update |-> 0]))} :
          /\ tasks' = Append(tasks, e.task)
          /\ Applies(e)

\* The call a handler awaits has completed and the handler runs on
TaskResumes ==
    \E i \in 1..Len(tasks) :
        /\ tasks[i].pc # "done"
        /\ tasks[i].pc = "updateRules" => updates[tasks[i].update].pc = "done"
        /\ \E e \in {resumedTask(tasks[i])} :
              /\ tasks' = [tasks EXCEPT ![i] = e.task]
              /\ Applies(e)

\* The user makes another tab the active one
ActivateTab ==
    /\ \E t \in TabIds \ {activeTab} : activeTab' = t
    /\ UNCHANGED <<scanVars, secondVars, ruleVars, matchVars, pageVars, extensionVars,
                   tasks, tabs, storage, notifications, response, now, cleanup>>

\* background.js:530-536: the popup sends its settings and lists
WorkerSettingsMessage ==
    /\ Len(updates) < MaxUpdates
    /\ settings' \in WorkerSettings \cup {settings}
    /\ whitelist' \in WorkerWhitelists \cup {whitelist}
    /\ startUpdate
    /\ UNCHANGED <<blacklist, dynamicRules, url, content, domain, analysis, secondVars,
                   matchVars, workerVars, pageVars, extensionVars>>

NextWorker ==
    \/ PageContentMessage
    \/ BlockCurrentTabMessage
    \/ TaskResumes
    \/ ActivateTab
    \/ WorkerSettingsMessage
    \/ BrowserCompletes

SpecWorker == InitWorker /\ [][NextWorker]_vars

\* The handlers alone: the settings, the whitelist and the active tab stay
\* as they are
NextHandlers ==
    \/ PageContentMessage
    \/ BlockCurrentTabMessage
    \/ TaskResumes
    \/ BrowserCompletes

SpecHandlers == InitWorker /\ [][NextHandlers]_vars

-----------------------------------------------------------------------------
(* The hourly cleanup of the stored scan results (background.js:649-669),   *)
(* running beside the handlers that store them.                             *)

\* background.js:654 and 669: one hour in milliseconds
oneHour == 60 * 60 * 1000

\* The clock advances in steps of half an hour
halfHour == 30 * 60 * 1000

\* Most clock steps in one run
MaxTicks == 4

\* background.js:656-660: the keys of the entries of the storage content st
\* that are scan results stored before oneHourAgo
keysToRemove(st, oneHourAgo) ==
    {key \in DOMAIN st :
        /\ startsWith(key, "scan_")
        /\ st[key].timestamp # 0
        /\ st[key].timestamp < oneHourAgo}

\* chrome.storage.local.remove(keys) applied to the stored content st
storageRemove(st, keys) == [k \in DOMAIN st \ keys |-> st[k]]

\* A scan result as handlePageContent stores it (background.js:445-450)
storedScan(u, timestamp) ==
    [url |-> u, domain |-> hostnameOf(u),
     analysis |-> [score |-> 0, status |-> "safe", issues |-> <<>>],
     timestamp |-> timestamp]

\* What the storage holds when the worker has run for an hour: the settings
\* (background.js:638-641), a blacklist, and the scan results of tabs stored
\* during that hour
StoredEarlier ==
    LET base == ("settings" :> defaultSettings) @@ ("blacklist" :> <<>>)
    IN  {base,
         storageSet(base, "scan_1", storedScan("https://example.com/", halfHour)),
         storageSet(storageSet(base, "scan_1",
                               storedScan("http://scam.example/apply?offer=act-now", oneHour)),
                    "scan_2", storedScan("https://example.com/", halfHour))}

\* The worker an hour after it started: the first cleanup is due
InitCleanup ==
    /\ settings = defaultSettings
    /\ blacklist = <<>>
    /\ whitelist = <<>>
    /\ tasks = <<>>
    /\ tabs = (1 :> "http://scam.example/apply?offer=act-now") @@ (2 :> "https://example.com/")
    /\ activeTab = 1
    /\ storage \in StoredEarlier
    /\ notifications = {}
    /\ response = [details |-> [url |-> "", type |-> ""], redirectUrl |-> ""]
    /\ now = oneHour
    /\ cleanup = [pc |-> "idle", storage |-> <<>>, next |-> oneHour]
    /\ InitCallIdle
    /\ InitSecondIdle
    /\ InitRulesIdle
    /\ InitMatchIdle
    /\ InitPageIdle
    /\ InitExtensionIdle

\* Time passes
Tick ==
    /\ now < oneHour + MaxTicks * halfHour
    /\ now' = now + halfHour
    /\ UNCHANGED <<scanVars, secondVars, ruleVars, matchVars, pageVars, extensionVars,
                   tasks, tabs, activeTab, storage, notifications, response, cleanup>>

\* background.js:650-652: the interval timer fires and the callback asks
\* for the whole storage content
CleanupStarts ==
    /\ cleanup.pc = "idle"
    /\ now >= cleanup.next
    /\ cleanup' = [pc |-> "get", storage |-> storage, next |-> cleanup.next + oneHour]
    /\ UNCHANGED <<scanVars, secondVars, ruleVars, matchVars, pageVars, extensionVars,
                   tasks, tabs, activeTab, storage, notifications, response, now>>

\* background.js:653-665: the content has arrived; the callback collects
\* the keys and removes them
CleanupResumes ==
    /\ cleanup.pc = "get"
    /\ \E keys \in {keysToRemove(cleanup.storage, now - oneHour)} :
          /\ storage' = IF keys # {} THEN storageRemove(storage, keys) ELSE storage
          /\ cleanup' = [cleanup EXCEPT !.pc = IF keys # {} THEN "remove" ELSE "idle",
                                         !.storage = <<>>]
    /\ UNCHANGED <<scanVars, secondVars, ruleVars, matchVars, pageVars, extensionVars,
                   tasks, tabs, activeTab, notifications, response, now>>

\* background.js:663-664: the removal has completed
CleanupReturns ==
    /\ cleanup.pc = "remove"
    /\ cleanup' = [cleanup EXCEPT !.pc = "idle"]
    /\ UNCHANGED <<scanVars, secondVars, ruleVars, matchVars, pageVars, extensionVars,
                   tasks, tabs, activeTab, storage, notifications, response, now>>

NextCleanup ==
    \/ Tick
    \/ CleanupStarts
    \/ CleanupResumes
    \/ CleanupReturns
    \/ PageContentMessage
    \/ TaskResumes

SpecCleanup == InitCleanup /\ [][NextCleanup]_vars

-----------------------------------------------------------------------------
(* The content script deciding when to analyse the page (content.js).  The  *)
(* clock advances in steps of half a second; a timeout runs when its time    *)
(* has come or later, never earlier.                                        *)

\* content.js:16
ANALYSIS_THROTTLE == 2000

\* content.js:17
CONTENT_CHANGE_DELAY == 1000

\* The clock step, in milliseconds
halfSecond == 500

\* Date.now() when the content script is initialised
pageLoaded == 1000000

\* Most clock steps in one run
MaxPageTicks == 6

\* Most timeouts pending at a time, the debounce timeout not counted
MaxTimers == 2

\* content.js:187-202 without the test of the time since the last analysis
shouldAnalyzePage_NoThrottle(longEnough) ==
    IF isAnalyzing THEN FALSE
    ELSE longEnough

\* content.js:187-202 on a web page; longEnough tells whether the text of
\* the page has 50 characters or more
shouldAnalyzePage(longEnough) ==
    IF isAnalyzing \/ (now - lastAnalysisTime) < ANALYSIS_THROTTLE THEN FALSE
    ELSE longEnough

\* setTimeout(callback, delay)
timeout(callback, delay) == [due |-> now + delay, callback |-> callback]

\* content.js:412-463: analyzePageContent; the timeouts left are those of
\* pending, and the analysis body adds the one that releases isAnalyzing
analyzePageContent(pending) ==
    \E longEnough \in BOOLEAN :
        IF shouldAnalyzePage(longEnough)
        THEN /\ isAnalyzing' = TRUE
             /\ lastAnalysisTime' = now
             /\ executions' = Append(executions, [at |-> now, isAnalyzing |-> isAnalyzing])
             /\ timers' = pending \cup {timeout("release", 1000)}
        ELSE /\ timers' = pending
             /\ UNCHANGED <<isAnalyzing, lastAnalysisTime, executions>>

\* Most calls counted in one burst; further calls leave the count
MaxBurst == 2

\* The burst after one more call of debouncedAnalysis
calledAgain ==
    IF debounceTimers = {} THEN 1
    ELSE IF burst < MaxBurst THEN burst + 1
    ELSE burst

\* debouncedAnalysis without the clearTimeout
debouncedAnalysis_NoClear(pending) ==
    /\ debounceTimers' = debounceTimers \cup {now + CONTENT_CHANGE_DELAY}
    /\ analysisTimer' = now + CONTENT_CHANGE_DELAY
    /\ burst' = calledAgain
    /\ timers' = pending
    /\ UNCHANGED <<isAnalyzing, lastAnalysisTime, executions>>

\* content.js:466-474: debouncedAnalysis.  A timeout is named by the time
\* it is due; analysisTimer names the timeout set last, 0 before the first
\* (clearTimeout of a timeout that has run does nothing)
debouncedAnalysis(pending) ==
    /\ debounceTimers' = (debounceTimers \ {analysisTimer}) \cup {now + CONTENT_CHANGE_DELAY}
    /\ analysisTimer' = now + CONTENT_CHANGE_DELAY
    /\ burst' = calledAgain
    /\ timers' = pending
    /\ UNCHANGED <<isAnalyzing, lastAnalysisTime, executions>>

\* content.js:555-570: the content script initialised on a web page, the
\* timeout of the first analysis set
InitPage ==
    /\ now = pageLoaded
    /\ isAnalyzing = FALSE
    /\ lastAnalysisTime = 0
    /\ analysisTimer = 0
    /\ debounceTimers = {}
    /\ burst = 0
    /\ timers = {[due |-> pageLoaded + 1000, callback |-> "analyzePageContent"]}
    /\ executions = <<>>
    /\ InitExtensionIdle
    /\ tasks = <<>>
    /\ tabs = [t \in TabIds |-> "about:blank"]
    /\ activeTab = 1
    /\ storage = <<>>
    /\ notifications = {}
    /\ response = [details |-> [url |-> "", type |-> ""], redirectUrl |-> ""]
    /\ cleanup = [pc |-> "idle", storage |-> <<>>, next |-> 0]
    /\ InitScanIdle
    /\ InitMatchIdle

\* Half a second passes
PageTick ==
    /\ now < pageLoaded + MaxPageTicks * halfSecond
    /\ now' = now + halfSecond
    /\ UNCHANGED <<scanVars, secondVars, ruleVars, matchVars, pageVars, extensionVars,
                   tasks, tabs, activeTab, storage, notifications, response, cleanup>>

\* The variables the content script does not touch
PageFrame ==
    UNCHANGED <<scanVars, secondVars, ruleVars, matchVars, workerVars, extensionVars>>

\* content.js:482-500: the mutation observer reports a significant change
Mutation ==
    /\ debouncedAnalysis(timers)
    /\ PageFrame

\* content.js:516-523 and 527-531: the URL has changed, or the history was
\* popped; debouncedAnalysis is called after a delay
Navigation ==
    /\ Cardinality(timers) < MaxTimers
    /\ \E delay \in {1500, 500} :
          timers' = timers \cup {timeout("debouncedAnalysis", delay)}
    /\ UNCHANGED <<isAnalyzing, lastAnalysisTime, analysisTimer, debounceTimers, burst,
                   executions>>
    /\ PageFrame

\* content.js:580-586: the page becomes visible
VisibilityChange ==
    /\ Cardinality(timers) < MaxTimers
    /\ \E longEnough \in BOOLEAN :
          timers' = IF shouldAnalyzePage(longEnough)
                    THEN timers \cup {timeout("debouncedAnalysis", 1000)}
                    ELSE timers
    /\ UNCHANGED <<isAnalyzing, lastAnalysisTime, analysisTimer, debounceTimers, burst,
                   executions>>
    /\ PageFrame

\* content.js:588-594: the window gets the focus
Focus ==
    /\ Cardinality(timers) < MaxTimers
    /\ timers' = timers \cup {timeout("focus", 500)}
    /\ UNCHANGED <<isAnalyzing, lastAnalysisTime, analysisTimer, debounceTimers, burst,
                   executions>>
    /\ PageFrame

\* content.js:537-539: the message FORCE_SCAN
ForceScan ==
    /\ analyzePageContent(timers)
    /\ UNCHANGED <<analysisTimer, debounceTimers, burst>>
    /\ PageFrame

\* A timeout whose time has come runs
TimerFires ==
    /\ \E t \in timers :
          /\ t.due <= now
          /\ IF t.callback = "analyzePageContent"
             THEN /\ analyzePageContent(timers \ {t})
                  /\ UNCHANGED <<analysisTimer, debounceTimers, burst>>
             ELSE IF t.callback = "debouncedAnalysis"
             THEN debouncedAnalysis(timers \ {t})
             ELSE IF t.callback = "focus"
             THEN \E longEnough \in BOOLEAN :
                      IF shouldAnalyzePage(longEnough)
                      THEN debouncedAnalysis(timers \ {t})
                      ELSE /\ timers' = timers \ {t}
                           /\ UNCHANGED <<isAnalyzing, lastAnalysisTime, analysisTimer,
                                           debounceTimers, burst, executions>>
             ELSE /\ isAnalyzing' = FALSE
                  /\ timers' = timers \ {t}
                  /\ UNCHANGED <<lastAnalysisTime, analysisTimer, debounceTimers, burst,
                                  executions>>
    /\ PageFrame

\* content.js:471-473: the debounce timeout runs
DebounceFires ==
    /\ \E t \in debounceTimers :
          /\ t <= now
          /\ debounceTimers' = debounceTimers \ {t}
    /\ analyzePageContent(timers)
    /\ UNCHANGED <<analysisTimer, burst>>
    /\ PageFrame

NextPage ==
    \/ PageTick
    \/ Mutation
    \/ Navigation
    \/ VisibilityChange
    \/ Focus
    \/ ForceScan
    \/ TimerFires
    \/ DebounceFires

SpecPage == InitPage /\ [][NextPage]_vars

\* The content script on a page that is neither hidden nor refocused and
\* gets no FORCE_SCAN message: the callers of debouncedAnalysis are the
\* mutation observer and the timeouts of a URL change
NextDebounce ==
    \/ PageTick
    \/ Mutation
    \/ Navigation
    \/ TimerFires
    \/ DebounceFires

\* Time passes and the browser runs a timeout that stays due
SpecDebounce ==
    InitPage /\ [][NextDebounce]_vars /\ WF_vars(PageTick) /\ WF_vars(DebounceFires)

-----------------------------------------------------------------------------
(* handleAddToWhitelist (background.js:477-498) called for addToWhitelist   *)
(* messages; an invocation runs from one await to the next.                 *)

\* Most invocations of handleAddToWhitelist in one run
MaxWhitelistCalls == 2

\* d.toLowerCase() === domain.toLowerCase()
equalIgnoringCase(a, b) == toLowerCase(a) = toLowerCase(b)

\* The whitelist after a push that is made whatever the list holds
whitelistWith_AlwaysPush(wl, d) == Append(wl, d)

\* background.js:479-481: the whitelist after the push, which is made when
\* no entry equals the domain ignoring case
whitelistWith(wl, d) ==
    IF \E i \in 1..Len(wl) : equalIgnoringCase(wl[i], d) THEN wl
    ELSE Append(wl, d)

\* background.js:484-487: the blacklist after findIndex and splice, which
\* remove the first entry that equals the domain ignoring case
blacklistWithout(bl, d) ==
    LET found == {i \in 1..Len(bl) : equalIgnoringCase(bl[i], d)}
        blacklistIndex == IF found = {} THEN 0
                          ELSE CHOOSE i \in found : \A j \in found : i <= j
    IN  IF blacklistIndex > 0
        THEN SubSeq(bl, 1, blacklistIndex - 1) \o SubSeq(bl, blacklistIndex + 1, Len(bl))
        ELSE bl

\* Domains addToWhitelist messages name
WhitelistedDomains == {"scam.example", "Scam.Example"}

\* Lists as the service worker has loaded them: lower case, no entry twice
LoadedBlacklists == {<<>>, <<"scam.example">>, <<"example.com", "scam.example">>}

LoadedWhitelists == {<<>>, <<"scam.example">>, <<"safe.example.com">>}

\* The worker after loadStoredData (background.js:116-127) has loaded the
\* settings and the lists from the storage and updated the rules; blocking
\* is enabled, so that every updateBlockingRules compiles the lists
InitAddToWhitelist ==
    /\ settings = [defaultSettings EXCEPT !.blockingEnabled = TRUE]
    /\ blacklist \in LoadedBlacklists
    /\ whitelist \in LoadedWhitelists
    /\ tasks = <<>>
    /\ tabs = [t \in TabIds |-> "about:blank"]
    /\ activeTab = 1
    /\ storage = ("settings" :> settings) @@ ("blacklist" :> blacklist)
                      @@ ("whitelist" :> whitelist)
    /\ notifications = {}
    /\ response = [details |-> [url |-> "", type |-> ""], redirectUrl |-> ""]
    /\ now = 0
    /\ cleanup = [pc |-> "idle", storage |-> <<>>, next |-> 0]
    /\ dynamicRules =
          IF settings.blockingEnabled
          THEN {compileRules(blacklist, whitelist)[k] :
                    k \in 1..Len(compileRules(blacklist, whitelist))}
          ELSE {}
    /\ callQueue = <<>>
    /\ updates = <<>>
    /\ InitCallIdle
    /\ InitSecondIdle
    /\ InitMatchIdle
    /\ InitPageIdle
    /\ InitExtensionIdle

\* background.js:543-546 and 477-489: an addToWhitelist message arrives and
\* handleAddToWhitelist runs to its first await, the storing of the whitelist
AddToWhitelistMessage ==
    /\ Len(whitelistCalls) < MaxWhitelistCalls
    /\ \E d \in WhitelistedDomains :
          /\ whitelist' = whitelistWith(whitelist, d)
          /\ blacklist' = blacklistWithout(blacklist, d)
          /\ storage' = storageSet(storage, "whitelist", whitelist')
          /\ whitelistCalls' =
                Append(whitelistCalls,
                       [domain |-> d, pc |-> "saveWhitelist", outcome |-> "running",
                        update |-> 0])
    /\ UNCHANGED <<settings, url, content, domain, analysis, secondVars, ruleVars,
                   matchVars, pageVars, popup, inbox, blockedPage,
                   tasks, tabs, activeTab, notifications, response, now, cleanup>>

\* background.js:489-493: the call an invocation awaits has completed; the
\* invocation stores the blacklist, then calls updateBlockingRules, then
\* returns true
AddToWhitelistResumes ==
    \E i \in 1..Len(whitelistCalls) :
        LET call == whitelistCalls[i]
        IN  /\ call.pc # "done"
            /\ IF call.pc = "saveWhitelist"
               THEN /\ storage' = storageSet(storage, "blacklist", blacklist)
                    /\ whitelistCalls' = [whitelistCalls EXCEPT ![i].pc = "saveBlacklist"]
                    /\ UNCHANGED <<updates, callQueue>>
               ELSE IF call.pc = "saveBlacklist"
               THEN /\ Len(updates) < MaxUpdates
                    /\ startUpdate
                    /\ whitelistCalls' =
                          [whitelistCalls EXCEPT ![i].pc = "updateRules",
                                                 ![i].update = Len(updates) + 1]
                    /\ UNCHANGED storage
               ELSE /\ updates[call.update].pc = "done"
                    /\ whitelistCalls' =
                          [whitelistCalls EXCEPT ![i].pc = "done", ![i].outcome = "true"]
                    /\ UNCHANGED <<storage, updates, callQueue>>
            /\ UNCHANGED <<scanVars, secondVars, dynamicRules, matchVars, pageVars,
                           popup, inbox, blockedPage,
                           tasks, tabs, activeTab, notifications, response, now, cleanup>>

NextAddToWhitelist ==
    \/ AddToWhitelistMessage
    \/ AddToWhitelistResumes
    \/ BrowserCompletes

SpecAddToWhitelist == InitAddToWhitelist /\ [][NextAddToWhitelist]_vars

-----------------------------------------------------------------------------
(* The blocked page (blocked.js) in a tab the service worker has redirected. *)

\* Percent-decoding as URLSearchParams does it: + is a space, an escape
\* sequence is the character it stands for, anything else is kept
RECURSIVE percentDecode(_)
percentDecode(s) ==
    IF s = "" THEN ""
    ELSE IF Head(s) = "+" THEN " " \o percentDecode(Tail(s))
    ELSE IF Head(s) = "%" /\ \E c \in DOMAIN escapeOf : startsWith(s, escapeOf[c])
    THEN (CHOOSE c \in DOMAIN escapeOf : startsWith(s, escapeOf[c]))
             \o percentDecode(substring(s, 3))
    ELSE Head(s) \o percentDecode(Tail(s))

\* window.location.search of a page at address u
searchOf(u) ==
    LET q == indexOf(u, "?")
    IN  IF q < 0 THEN "" ELSE substring(u, q)

\* The value of the first name=value pair of query that has this name,
\* Undefined (null) when there is none
RECURSIVE firstValue(_, _)
firstValue(query, name) ==
    LET amp == indexOf(query, "&")
        pair == IF amp < 0 THEN query ELSE SubSeq(query, 1, amp)
        rest == IF amp < 0 THEN "" ELSE substring(query, amp + 1)
        eq == indexOf(pair, "=")
        key == IF eq < 0 THEN pair ELSE SubSeq(pair, 1, eq)
        value == IF eq < 0 THEN "" ELSE substring(pair, eq + 1)
    IN  IF query = "" THEN Undefined
        ELSE IF pair # "" /\ percentDecode(key) = name THEN percentDecode(value)
        ELSE firstValue(rest, name)

\* blocked.js:36-37: new URLSearchParams(search).get(name)
searchParamsGet(search, name) ==
    firstValue(IF startsWith(search, "?") THEN Tail(search) ELSE search, name)

\* value || fallback for a string or null
orElse(value, fallback) == IF value \in {Undefined, ""} THEN fallback ELSE value

\* blocked.js:19-26: the callback of sendMessage is called without a reply,
\* the fields stay as they are and init goes on (lines 11-12)
loadedWithoutReply(page) == [page EXCEPT !.pc = "ready"]

\* blocked.js:35-40: loadFromQueryParams, after which init goes on (11-12)
loadFromQueryParams(page) ==
    LET search == searchOf(page.address)
    IN  [page EXCEPT !.pc = "ready",
                     !.currentUrl = orElse(searchParamsGet(search, "url"), ""),
                     !.reasonFlagged = orElse(searchParamsGet(search, "reason_flagged"), ""),
                     !.riskLevel = orElse(searchParamsGet(search, "riskLevel"), "High Risk")]

\* How a page finds the extension's interfaces: present, absent (the page
\* is shown outside the extension), or throwing because the extension was
\* reloaded since the page was opened
Runtimes == {"present", "absent", "throws"}

\* blocked.js:3-6: the page of tab t, loaded
openedPage(t, runtime) ==
    [pc |-> "loading", tab |-> t, address |-> tabs[t], runtime |-> runtime,
     currentUrl |-> "", reasonFlagged |-> "", riskLevel |-> "", clicked |-> FALSE,
     domain |-> ""]

\* blocked.js:120-122, 9-10 and 16-33: DOMContentLoaded in a tab that shows
\* the blocked page; init calls loadBlockInfo, which sends getBlockInfo and
\* waits for the reply, or reads the query parameters
BlockedPageOpens ==
    /\ blockedPage.pc = "closed"
    /\ \E t \in TabIds, runtime \in Runtimes :
          /\ startsWith(tabs[t], getURL("blocked.html"))
          /\ IF runtime = "present"
             THEN /\ blockedPage' = [openedPage(t, runtime) EXCEPT !.pc = "sent"]
                  /\ inbox' = Append(inbox, [action |-> "getBlockInfo"])
             ELSE /\ blockedPage' = loadFromQueryParams(openedPage(t, runtime))
                  /\ UNCHANGED inbox
    /\ UNCHANGED <<scanVars, secondVars, ruleVars, matchVars, workerVars, pageVars,
                   popup, whitelistCalls>>

\* background.js:515-516 and 553-555: the listener receives getBlockInfo,
\* has no case for it and sends no response; the page's callback is called
\* without a reply (blocked.js:19-26)
GetBlockInfoReceived ==
    /\ inbox # <<>>
    /\ Head(inbox).action = "getBlockInfo"
    /\ inbox' = Tail(inbox)
    /\ blockedPage' = loadedWithoutReply(blockedPage)
    /\ UNCHANGED <<scanVars, secondVars, ruleVars, matchVars, workerVars, pageVars,
                   popup, whitelistCalls>>

\* blocked.js:72-77 and 94-96: addCurrentToWhitelist up to the call of
\* chrome.storage.local.get; new URL throws on a currentUrl without scheme,
\* the storage call throws in a page whose extension was reloaded, and both
\* are caught
addCurrentToWhitelist(page) ==
    IF ~UrlParses(page.currentUrl) THEN [page EXCEPT !.clicked = TRUE]
    ELSE LET hostname == toLowerCase(hostnameOf(page.currentUrl))
             d == IF startsWith(hostname, "www.") THEN substring(hostname, 4) ELSE hostname
         IN  IF page.runtime = "present"
             THEN [page EXCEPT !.clicked = TRUE, !.domain = d, !.pc = "get"]
             ELSE [page EXCEPT !.clicked = TRUE, !.domain = d]

\* blocked.js:61-63: the user clicks 'Add to Whitelist'
AddToWhitelistClick ==
    /\ blockedPage.pc = "ready"
    /\ ~blockedPage.clicked
    /\ blockedPage' = addCurrentToWhitelist(blockedPage)
    /\ UNCHANGED <<scanVars, secondVars, ruleVars, matchVars, workerVars, pageVars,
                   popup, inbox, whitelistCalls>>

NextBlocked ==
    \/ TabUpdatedEvent
    \/ BlockedPageOpens
    \/ GetBlockInfoReceived
    \/ AddToWhitelistClick

SpecBlocked == InitNav /\ [][NextBlocked]_vars

-----------------------------------------------------------------------------
(* The popup (backend/server.js:58-1100): the FountainScan object with its   *)
(* own copies of the settings and the lists, the storage callbacks of init, *)
(* the list operations and the messages it sends to the service worker.     *)

\* Most messages in flight to the service worker
MaxInbox == 5

\* String.prototype.split(sep)[0]
firstPart(str, sep) ==
    IF indexOf(str, sep) < 0 THEN str ELSE SubSeq(str, 1, indexOf(str, sep))

\* String.prototype.trim for blanks
RECURSIVE trim(_)
trim(str) ==
    IF startsWith(str, " ") THEN trim(substring(str, 1))
    ELSE IF endsWith(str, " ") THEN trim(SubSeq(str, 1, Len(str) - 1))
    ELSE str

\* String.prototype.split('.')
RECURSIVE labelsOf(_)
labelsOf(str) ==
    IF indexOf(str, ".") < 0 THEN <<str>>
    ELSE <<SubSeq(str, 1, indexOf(str, "."))>> \o labelsOf(substring(str, indexOf(str, ".") + 1))

Letters == {SubSeq(UpperCaseLetters \o LowerCaseLetters, i, i) : i \in 1..52}

LettersAndDigits == Letters \cup {SubSeq("0123456789", i, i) : i \in 1..10}

\* [a-zA-Z0-9]([a-zA-Z0-9-]{0,61}[a-zA-Z0-9])?
isLabel(str) ==
    /\ Len(str) \in 1..63
    /\ SubSeq(str, 1, 1) \in LettersAndDigits
    /\ SubSeq(str, Len(str), Len(str)) \in LettersAndDigits
    /\ \A i \in 1..Len(str) : SubSeq(str, i, i) \in LettersAndDigits \cup {"-"}

\* backend/server.js:294-307: labels separated by dots, the last one of two
\* letters or more
isValidBaseDomain(d) ==
    LET labels == labelsOf(d)
        last == labels[Len(labels)]
    IN  /\ Len(labels) >= 2
        /\ \A i \in 1..(Len(labels) - 1) : isLabel(labels[i])
        /\ Len(last) >= 2
        /\ \A i \in 1..Len(last) : SubSeq(last, i, i) \in Letters
        /\ Len(d) <= 253

\* backend/server.js:310-321
isValidDomain(d) ==
    LET cleaned == toLowerCase(stripSchemeAndWww(d))
    IN  IF startsWith(cleaned, "*.") THEN isValidBaseDomain(substring(cleaned, 2))
        ELSE isValidBaseDomain(cleaned)

\* backend/server.js:324-339
normalizeDomain(input) ==
    IF input = "" THEN ""
    ELSE LET stripped == stripSchemeAndWww(toLowerCase(input))
             noSlash == IF endsWith(stripped, "/")
                        THEN SubSeq(stripped, 1, Len(stripped) - 1) ELSE stripped
             host == firstPart(firstPart(firstPart(noSlash, "/"), "?"), "#")
         IN  trim(firstPart(host, ":"))

\* Array.prototype.some(d => d.toLowerCase() === domain.toLowerCase())
holdsIgnoringCase(list, d) == \E i \in 1..Len(list) : equalIgnoringCase(list[i], d)

\* The list without the entry at index i
splice(list, i) == SubSeq(list, 1, i - 1) \o SubSeq(list, i + 1, Len(list))

\* Array.prototype.findIndex(d => d.toLowerCase() === domain.toLowerCase()),
\* counted from 1, 0 when no entry is found
findIndexIgnoringCase(list, d) ==
    LET found == {i \in 1..Len(list) : equalIgnoringCase(list[i], d)}
    IN  IF found = {} THEN 0 ELSE CHOOSE i \in found : \A j \in found : i <= j

\* backend/server.js:849-888: the popup after addToList(listType) with the
\* text raw in the input field; it is left as it was when nothing is added
addToList(p, listType, raw) ==
    LET rawDomain == trim(raw)
        d == normalizeDomain(rawDomain)
        list == IF listType = "whitelist" THEN p.whitelist ELSE p.blacklist
        otherList == IF listType = "whitelist" THEN p.blacklist ELSE p.whitelist
    IN  IF rawDomain = "" \/ d = "" THEN p
        ELSE IF ~isValidDomain(d) THEN p
        ELSE IF holdsIgnoringCase(list, d) THEN p
        ELSE IF holdsIgnoringCase(otherList, d) THEN p
        ELSE IF listType = "whitelist" THEN [p EXCEPT !.whitelist = Append(@, d)]
        ELSE [p EXCEPT !.blacklist = Append(@, d)]

\* backend/server.js:906-914: the popup after a confirmed removeFromList
removeFromList(p, listType, d) ==
    LET list == IF listType = "whitelist" THEN p.whitelist ELSE p.blacklist
        index == findIndexIgnoringCase(list, d)
    IN  IF index = 0 THEN p
        ELSE IF listType = "whitelist" THEN [p EXCEPT !.whitelist = splice(@, index)]
        ELSE [p EXCEPT !.blacklist = splice(@, index)]

\* backend/server.js:570-578: the popup's addCurrentToWhitelist to its await
\* of chrome.tabs.query; new URL throws on a currentUrl without scheme
popupAddCurrentToWhitelist(p) ==
    IF ~UrlParses(p.currentUrl) THEN p
    ELSE LET hostname == toLowerCase(hostnameOf(p.currentUrl))
             d == IF startsWith(hostname, "www.") THEN substring(hostname, 4) ELSE hostname
         IN  IF holdsIgnoringCase(p.whitelist, d) THEN p
             ELSE [p EXCEPT !.whitelist = Append(@, d), !.pc = "queryTabs"]

\* backend/server.js:273-290: the popup's domainMatches, with the list entry
\* in lower case as its callers pass it
popupDomainMatches(current, list) ==
    LET cleanedDomain == toLowerCase(stripSchemeAndWww(list))
        cleanCurrent == toLowerCase(IF startsWith(current, "www.")
                                    THEN substring(current, 4) ELSE current)
    IN  \/ cleanCurrent = cleanedDomain
        \/ endsWith(cleanCurrent, "." \o cleanedDomain)
        \/ /\ startsWith(cleanedDomain, "*.")
           /\ \/ endsWith(cleanCurrent, "." \o substring(cleanedDomain, 2))
              \/ cleanCurrent = substring(cleanedDomain, 2)

\* Some entry of the list matches the hostname
popupListMatches(list, hostname) ==
    \E i \in 1..Len(list) : popupDomainMatches(hostname, toLowerCase(list[i]))

\* backend/server.js:178-188 and 82-91: the message that carries the popup's
\* settings and lists
stateMessage(action, p) ==
    [action |-> action, settings |-> p.settings, blacklist |-> p.blacklist,
     whitelist |-> p.whitelist]

\* backend/server.js:159-174: saveLists stores both lists and calls
\* updateBlockingRules, which sends them to the service worker
saveLists(p) ==
    /\ storage' = storageSet(storageSet(storage, "whitelist", p.whitelist),
                             "blacklist", p.blacklist)
    /\ inbox' = Append(inbox, stateMessage("updateBlockingRules", p))

\* Texts the user types into the list inputs
ListInputs == {"Scam.Example", "https://www.safe.example.com/login", "not a domain"}

PopupBlacklists == {<<>>, <<"scam.example">>}

\* The levels the pattern checks of performComprehensiveScan give for a page
\* that neither list names (backend/server.js:719-806); they depend on the
\* text of the page
PatternLevels == {"safe", "danger"}

\* The worker after loadStoredData, the popup closed, tab 1 on a page of
\* scam.example and tab 2 on a page of example.com
InitPopup ==
    /\ settings \in StoredSettings
    /\ blacklist \in PopupBlacklists
    /\ whitelist = <<>>
    /\ tasks = <<>>
    /\ tabs = (1 :> "http://scam.example/apply?offer=act-now") @@ (2 :> "https://example.com/")
    /\ activeTab \in TabIds
    /\ storage = ("settings" :> settings) @@ ("blacklist" :> blacklist)
                      @@ ("whitelist" :> whitelist)
    /\ notifications = {}
    /\ response = [details |-> [url |-> "", type |-> ""], redirectUrl |-> ""]
    /\ now = 1800000
    /\ cleanup = [pc |-> "idle", storage |-> <<>>, next |-> 0]
    /\ dynamicRules =
          IF settings.blockingEnabled
          THEN {compileRules(blacklist, whitelist)[k] :
                    k \in 1..Len(compileRules(blacklist, whitelist))}
          ELSE {}
    /\ callQueue = <<>>
    /\ updates = <<>>
    /\ InitCallIdle
    /\ InitSecondIdle
    /\ InitMatchIdle
    /\ InitPageIdle
    /\ InitExtensionIdle

\* What no step of the popup changes
PopupFrame ==
    UNCHANGED <<scanVars, secondVars, ruleVars, matchVars, pageVars, blockedPage,
                whitelistCalls, tasks, tabs, activeTab, notifications, response, now,
                cleanup>>

\* backend/server.js:71-92: init; the storage reads of loadSettings and
\* loadLists and the tab query of scanCurrentSite are pending, and
\* initializeBlocking sends the settings and lists the popup starts with
PopupOpens ==
    /\ popup.pc = "closed"
    /\ Len(inbox) < MaxInbox
    /\ popup' = [pc |-> "open", view |-> "main", currentUrl |-> "",
                 settings |-> defaultSettings, whitelist |-> <<>>, blacklist |-> <<>>,
                 settingsPending |-> TRUE, listsPending |-> TRUE]
    /\ inbox' = Append(inbox, stateMessage("updateSettings", popup'))
    /\ UNCHANGED storage
    /\ PopupFrame

\* backend/server.js:98-105: the callback of loadSettings
PopupSettingsLoaded ==
    /\ popup.pc = "open"
    /\ popup.settingsPending
    /\ Len(inbox) < MaxInbox
    /\ IF "settings" \in DOMAIN storage
       THEN /\ popup' = [popup EXCEPT !.settingsPending = FALSE,
                                      !.settings = storage["settings"]]
            /\ inbox' = Append(inbox, stateMessage("updateBlockingRules", popup'))
       ELSE /\ popup' = [popup EXCEPT !.settingsPending = FALSE]
            /\ UNCHANGED inbox
    /\ UNCHANGED storage
    /\ PopupFrame

\* backend/server.js:140-146: the callback of loadLists
PopupListsLoaded ==
    /\ popup.pc = "open"
    /\ popup.listsPending
    /\ Len(inbox) < MaxInbox
    /\ popup' = [popup EXCEPT
                    !.listsPending = FALSE,
                    !.whitelist = IF "whitelist" \in DOMAIN storage
                                  THEN storage["whitelist"] ELSE <<>>,
                    !.blacklist = IF "blacklist" \in DOMAIN storage
                                  THEN storage["blacklist"] ELSE <<>>]
    /\ inbox' = Append(inbox, stateMessage("updateBlockingRules", popup'))
    /\ UNCHANGED storage
    /\ PopupFrame

\* backend/server.js:461-508, 527-541 and 689-717: scanCurrentSite once
\* getCurrentUrl has answered, at init and on a rescan; a page found
\* dangerous with blocking enabled is reported to the service worker and the
\* blocking message replaces the view
PopupScans ==
    /\ popup.pc = "open"
    /\ Len(inbox) < MaxInbox
    /\ \E patternLevel \in PatternLevels :
          LET u == tabs[activeTab]
              hostname == toLowerCase(hostnameOf(u))
              whitelisted == popupListMatches(popup.whitelist, hostname)
              blacklisted == popupListMatches(popup.blacklist, hostname)
              level == IF whitelisted THEN "safe"
                       ELSE IF blacklisted THEN "danger" ELSE patternLevel
              issues == IF blacklisted THEN "Domain is blacklisted"
                        ELSE "No HTTPS encryption"
          IN  IF level = "danger" /\ popup.settings.blockingEnabled /\ ~whitelisted
              THEN /\ popup' = [popup EXCEPT !.currentUrl = u, !.view = "blocked"]
                   /\ inbox' = Append(inbox, [action |-> "blockCurrentTab", url |-> u,
                                              reason |-> issues])
              ELSE /\ popup' = [popup EXCEPT !.currentUrl = u]
                   /\ UNCHANGED inbox
    /\ UNCHANGED storage
    /\ PopupFrame

\* backend/server.js:212-215 and 849-888: the user adds what the input
\* field holds to a list
PopupAddToList ==
    /\ popup.pc = "open"
    /\ Len(inbox) < MaxInbox
    /\ \E listType \in {"whitelist", "blacklist"}, raw \in ListInputs :
          \E p \in {addToList(popup, listType, raw)} :
              /\ popup' = p
              /\ IF p # popup THEN saveLists(p) ELSE UNCHANGED <<storage, inbox>>
    /\ PopupFrame

\* backend/server.js:971 and 906-914: the user removes an entry the list
\* shows and confirms
PopupRemoveFromList ==
    /\ popup.pc = "open"
    /\ Len(inbox) < MaxInbox
    /\ \E listType \in {"whitelist", "blacklist"} :
          \E d \in {popup[listType][i] : i \in 1..Len(popup[listType])} :
              \E p \in {removeFromList(popup, listType, d)} :
                  /\ popup' = p
                  /\ IF p # popup THEN saveLists(p) ELSE UNCHANGED <<storage, inbox>>
    /\ PopupFrame

\* backend/server.js:560 and 570-578: the user clicks 'Add to Whitelist' in
\* the blocking message
PopupAddCurrentToWhitelist ==
    /\ popup.pc = "open"
    /\ popup.view = "blocked"
    /\ Len(inbox) < MaxInbox
    /\ \E p \in {popupAddCurrentToWhitelist(popup)} :
          /\ popup' = p
          /\ IF p # popup THEN saveLists(p) ELSE UNCHANGED <<storage, inbox>>
    /\ PopupFrame

\* backend/server.js:579-586: the tab query has answered; the tab is
\* reloaded and the popup closes
PopupReloads ==
    /\ popup.pc = "queryTabs"
    /\ popup' = [pc |-> "closed"]
    /\ UNCHANGED <<storage, inbox>>
    /\ PopupFrame

\* background.js:530-536: the service worker receives the popup's settings
\* and lists; every field of the message is an object or an array, which
\* replaces the worker's
SettingsMessageReceived ==
    /\ inbox # <<>>
    /\ Head(inbox).action \in {"updateSettings", "updateBlockingRules"}
    /\ Len(updates) < MaxUpdates
    /\ settings' = Head(inbox).settings
    /\ blacklist' = Head(inbox).blacklist
    /\ whitelist' = Head(inbox).whitelist
    /\ inbox' = Tail(inbox)
    /\ startUpdate
    /\ UNCHANGED <<dynamicRules, url, content, domain, analysis, secondVars, matchVars,
                   workerVars, pageVars, popup, blockedPage, whitelistCalls>>

\* The popup opening while the service worker runs
NextPopupInit ==
    \/ PopupOpens
    \/ PopupSettingsLoaded
    \/ PopupListsLoaded
    \/ SettingsMessageReceived
    \/ BrowserCompletes

SpecPopupInit == InitPopup /\ [][NextPopupInit]_vars

\* The popup and its list operations, its messages in flight
NextPopupLists ==
    \/ PopupOpens
    \/ PopupSettingsLoaded
    \/ PopupListsLoaded
    \/ PopupScans
    \/ PopupAddToList
    \/ PopupRemoveFromList
    \/ PopupAddCurrentToWhitelist
    \/ PopupReloads

SpecPopupLists == InitPopup /\ [][NextPopupLists]_vars

\* background.js:593-628: a tab requests the page of a domain that no list
\* names and whose address shows suspicious patterns
DangerousRequest ==
    WebRequest("http://free-scholarship-ng.tk/apply?offer=act-now", "main_frame")

\* The popup and the service worker writing the lists
NextLists ==
    \/ PopupOpens
    \/ PopupSettingsLoaded
    \/ PopupListsLoaded
    \/ PopupRemoveFromList
    \/ SettingsMessageReceived
    \/ DangerousRequest
    \/ BrowserCompletes

SpecLists == InitPopup /\ [][NextLists]_vars


-----------------------------------------------------------------------------
(* Properties of the scoring engine, checked under Spec *)

Returned == analysis.status \in {"safe", "warning", "danger"}

\* Some whitelist / blacklist entry matches the scanned domain
DomainOnWhitelist == \E i \in 1..Len(whitelist) : domainMatches(domain, whitelist[i])
DomainOnBlacklist == \E i \in 1..Len(blacklist) : domainMatches(domain, blacklist[i])

NoErrorIssue == \A i \in 1..Len(analysis.issues) : analysis.issues[i] # "Error during analysis"

\* C1: whenever some whitelist entry matches the domain, the result is exactly
\* score 0, status safe, issues <<"Domain is whitelisted">>, whatever the
\* blacklist holds and whatever other checks would have fired.
C1_WhitelistOverride ==
    (Returned /\ DomainOnWhitelist) =>
        analysis = [score |-> 0, status |-> "safe",
                    issues |-> <<"Domain is whitelisted">>]

\* A whitelisted domain that is also blacklisted, on http, with keywords in
\* the URL and in the content
C1_Witness ==
    /\ Returned
    /\ whitelist = <<"scam.example">>
    /\ blacklist = <<"scam.example">>
    /\ domain = "www.scam.example"
    /\ url = "http://www.scam.example/apply?offer=act-now"
    /\ content = "quick-loan bvn urgent"
    /\ analysis.issues = <<"Domain is whitelisted">>

\* Largest score classified in C2: every weight added, all 20 keywords and
\* all 10 generic patterns found
MaxScore == 332

\* C2: the status is danger iff score >= 70, warning iff 40 <= score < 70 and
\* safe iff score < 40; so 70 is danger, 69 and 40 are warning, 39 is safe.
C2_Thresholds ==
    /\ Returned =>
          /\ (analysis.status = "danger") <=> (analysis.score >= 70)
          /\ (analysis.status = "warning") <=> (analysis.score >= 40 /\ analysis.score < 70)
          /\ (analysis.status = "safe") <=> (analysis.score < 40)
          /\ (analysis.score = 70 => analysis.status = "danger")
          /\ (analysis.score = 69 => analysis.status = "warning")
          /\ (analysis.score = 40 => analysis.status = "warning")
          /\ (analysis.score = 39 => analysis.status = "safe")
    /\ \A score \in 0..MaxScore :
          /\ (classify(score) = "danger") <=> (score >= 70)
          /\ (classify(score) = "warning") <=> (score >= 40 /\ score < 70)
          /\ (classify(score) = "safe") <=> (score < 40)

\* A scan that scores exactly 70
C2_Witness == Returned /\ analysis.score = 70 /\ analysis.status = "danger"

\* The other three boundary scores are reached too
C2_Reach69 == Returned /\ analysis.score = 69 /\ analysis.status = "warning"
C2_Reach40 == Returned /\ analysis.score = 40 /\ analysis.status = "warning"
C2_Reach39 == Returned /\ analysis.score = 39 /\ analysis.status = "safe"

\* C3: a scan whose domain matches some blacklist entry and no whitelist entry
\* has score >= 70 and status danger, whatever the url and content are.
C3_BlacklistIsDanger ==
    (Returned /\ DomainOnBlacklist /\ ~DomainOnWhitelist) =>
        (analysis.score >= 70 /\ analysis.status = "danger")

\* A blacklisted subdomain on https with no other signal: the score is the
\* blacklist weight alone
C3_Witness ==
    /\ Returned
    /\ domain = "www.scam.example"
    /\ DomainOnBlacklist
    /\ ~DomainOnWhitelist
    /\ analysis.score = 70
    /\ analysis.issues = <<"Domain is blacklisted">>

\* text is a substring of the lowercased URL lu or of the lowercased content lc
Occurs(text, lc, lu) == includes(lc, text) \/ includes(lu, text)

Bit(b) == IF b THEN 1 ELSE 0

\* Number of entries of a keyword table that occur
CountOccurring(table, lc, lu) ==
    Cardinality({k \in 1..Len(table) : Occurs(table[k], lc, lu)})

\* Number of category keywords that occur, all categories together
KeywordCount(lc, lu) ==
    CountOccurring(NIGERIAN_SCAM_PATTERNS[1].keywords, lc, lu)
    + CountOccurring(NIGERIAN_SCAM_PATTERNS[2].keywords, lc, lu)
    + CountOccurring(NIGERIAN_SCAM_PATTERNS[3].keywords, lc, lu)
    + CountOccurring(NIGERIAN_SCAM_PATTERNS[4].keywords, lc, lu)

\* What the four yes/no checks add: each weight once
FlagScore ==
    10 * Bit(~startsWith(url, "https://"))
    + 15 * Bit(\E i \in 1..Len(SUSPICIOUS_TLDS) : endsWith(domain, SUSPICIOUS_TLDS[i]))
    + 10 * Bit(\E i \in 1..Len(URL_SHORTENERS) : includes(domain, URL_SHORTENERS[i]))
    + 70 * Bit(DomainOnBlacklist)

\* A scan that ran to the end of the try block
ScoredWithoutError == Returned /\ ~DomainOnWhitelist /\ NoErrorIssue

\* C8: for a non-whitelisted scan that raises no error, score = 10*[no https]
\* + 15*[suspicious TLD] + 10*[shortener] + 70*[blacklisted] + 10*(category
\* keywords found) + 3*(generic patterns found); the TLD and the shortener
\* weight are added at most once however many table entries match.
C8_AdditiveScore ==
    ScoredWithoutError =>
        LET lc == toLowerCase(content)
            lu == toLowerCase(url)
        IN  analysis.score = FlagScore + 10 * KeywordCount(lc, lu)
                                + 3 * CountOccurring(SUSPICIOUS_PATTERNS, lc, lu)

\* Two shortener names occur in the domain and the weight is added once,
\* together with five keywords, three generic patterns and the https weight
C8_Witness ==
    /\ ScoredWithoutError
    /\ domain = "bit.ly.t.co"
    /\ includes(domain, "bit.ly") /\ includes(domain, "t.co")
    /\ url = "http://bit.ly.t.co/"
    /\ content = "urgent: verify-account, update-information, confirm-identity. npower nin bvn easy-cash"
    /\ analysis.score = 10 + 10 + 50 + 9

\* The issue category i adds when the keywords found are those that occur
CategoryIssue(i, lc, lu) ==
    NIGERIAN_SCAM_PATTERNS[i].category \o " scam indicators: "
        \o join(SelectSeq(NIGERIAN_SCAM_PATTERNS[i].keywords,
                          LAMBDA k : Occurs(k, lc, lu)), ", ")

\* Number of issues that name category i
CategoryIssues(i) ==
    Cardinality({j \in 1..Len(analysis.issues) :
                    startsWith(analysis.issues[j],
                               NIGERIAN_SCAM_PATTERNS[i].category \o " scam indicators: ")})

\* C9: a keyword counts once when it is a substring of the lowercased URL or
\* of the lowercased content (once even when in both); a category adds
\* count * 10 and one issue naming the category and the matched keywords; a
\* category with count 0 adds nothing and no issue.
C9_KeywordCategories ==
    ScoredWithoutError =>
        LET lc == toLowerCase(content)
            lu == toLowerCase(url)
            count == [i \in 1..Len(NIGERIAN_SCAM_PATTERNS) |->
                         CountOccurring(NIGERIAN_SCAM_PATTERNS[i].keywords, lc, lu)]
        IN  /\ analysis.score - FlagScore - 3 * CountOccurring(SUSPICIOUS_PATTERNS, lc, lu)
                  = 10 * count[1] + 10 * count[2] + 10 * count[3] + 10 * count[4]
            /\ \A i \in 1..Len(NIGERIAN_SCAM_PATTERNS) :
                  IF count[i] > 0
                  THEN /\ CategoryIssues(i) = 1
                       /\ \E j \in 1..Len(analysis.issues) :
                             analysis.issues[j] = CategoryIssue(i, lc, lu)
                  ELSE CategoryIssues(i) = 0

\* "free-scholarship" is in the URL and in the content and counts once; the
\* other categories have no match
C9_Witness ==
    /\ ScoredWithoutError
    /\ domain = "free-scholarship-ng.tk"
    /\ content = "free-scholarship for all"
    /\ url = "https://free-scholarship-ng.tk/"
    /\ includes(toLowerCase(url), "free-scholarship")
    /\ includes(toLowerCase(content), "free-scholarship")
    /\ analysis.issues = <<"Suspicious domain extension: .tk",
                           "scholarship scam indicators: free-scholarship">>
    /\ analysis.score = 15 + 10

\* C10: every entry of the generic pattern table whose text occurs, compared
\* case-insensitively, in the URL or the content is counted and the score
\* grows by 3 per counted entry; each entry can be counted by some input.
C10_GenericPatterns ==
    ScoredWithoutError =>
        LET lc == toLowerCase(content)
            lu == toLowerCase(url)
        IN  analysis.score - FlagScore - 10 * KeywordCount(lc, lu) =
                3 * Cardinality({k \in 1..Len(SUSPICIOUS_PATTERNS) :
                                    Occurs(toLowerCase(SUSPICIOUS_PATTERNS[k]), lc, lu)})

\* <<text>> when the check fired, nothing otherwise
IssueIf(fired, text) == IF fired THEN <<text>> ELSE <<>>

\* The issues of the four yes/no checks, in the order HTTPS, TLD, shortener,
\* blacklist
FlagIssues ==
    IssueIf(~startsWith(url, "https://"), "No HTTPS encryption")
    \o IssueIf(\E i \in 1..Len(SUSPICIOUS_TLDS) : endsWith(domain, SUSPICIOUS_TLDS[i]),
               "Suspicious domain extension: "
                   \o SUSPICIOUS_TLDS[CHOOSE i \in 1..Len(SUSPICIOUS_TLDS) :
                          /\ endsWith(domain, SUSPICIOUS_TLDS[i])
                          /\ \A j \in 1..(i - 1) : ~endsWith(domain, SUSPICIOUS_TLDS[j])])
    \o IssueIf(\E i \in 1..Len(URL_SHORTENERS) : includes(domain, URL_SHORTENERS[i]),
               "URL shortener detected")
    \o IssueIf(DomainOnBlacklist, "Domain is blacklisted")

\* The issues of the keyword categories in the order scholarship, financial,
\* government, urgency, then the issue of the generic patterns
KeywordIssues(lc, lu) ==
    IssueIf(CountOccurring(NIGERIAN_SCAM_PATTERNS[1].keywords, lc, lu) > 0,
            CategoryIssue(1, lc, lu))
    \o IssueIf(CountOccurring(NIGERIAN_SCAM_PATTERNS[2].keywords, lc, lu) > 0,
               CategoryIssue(2, lc, lu))
    \o IssueIf(CountOccurring(NIGERIAN_SCAM_PATTERNS[3].keywords, lc, lu) > 0,
               CategoryIssue(3, lc, lu))
    \o IssueIf(CountOccurring(NIGERIAN_SCAM_PATTERNS[4].keywords, lc, lu) > 0,
               CategoryIssue(4, lc, lu))
    \o IssueIf(CountOccurring(SUSPICIOUS_PATTERNS, lc, lu) > 0,
               "Phishing indicators: "
                   \o join(SelectSeq(SUSPICIOUS_PATTERNS, LAMBDA k : Occurs(k, lc, lu)), ", "))

\* C11: the issues of a non-whitelisted scan are one entry per check that
\* fired and none for a check that did not, in the order HTTPS, TLD,
\* shortener, blacklist, the categories scholarship, financial, government,
\* urgency, generic patterns.  (A scan stopped by an exception has the
\* entries of the checks that ran, in that order, before the error entry.)
C11_IssueOrder ==
    /\ NIGERIAN_SCAM_PATTERNS[1].category = "scholarship"
    /\ NIGERIAN_SCAM_PATTERNS[2].category = "financial"
    /\ NIGERIAN_SCAM_PATTERNS[3].category = "government"
    /\ NIGERIAN_SCAM_PATTERNS[4].category = "urgency"
    /\ ScoredWithoutError =>
          analysis.issues = FlagIssues \o KeywordIssues(toLowerCase(content), toLowerCase(url))
    /\ (Returned /\ ~DomainOnWhitelist /\ ~NoErrorIssue) =>
          analysis.issues = FlagIssues \o <<"Error during analysis">>

\* No https, a blacklisted domain, three categories and the generic patterns:
\* six entries in the fixed order
C11_Witness ==
    /\ ScoredWithoutError
    /\ url = "http://www.scam.example/"
    /\ blacklist = <<"scam.example">>
    /\ analysis.issues =
          <<"No HTTPS encryption",
            "Domain is blacklisted",
            "financial scam indicators: easy-cash, nin, bvn",
            "government scam indicators: npower",
            "urgency scam indicators: urgent",
            "Phishing indicators: verify-account, update-information, confirm-identity">>

\* The TLD entry and the shortener entry stand between the HTTPS entry and
\* the keyword entries
C11_ReachTldShortener ==
    /\ ScoredWithoutError
    /\ Len(analysis.issues) >= 3
    /\ analysis.issues[1] = "No HTTPS encryption"
    /\ analysis.issues[2] = "Suspicious domain extension: .tk"
    /\ startsWith(analysis.issues[3], "scholarship scam indicators: ")

\* A scan whose try block was left by an exception
ScoredWithError == Returned /\ ~DomainOnWhitelist /\ ~IsString(content)

\* C12: when an exception occurs during the analysis (the content is not a
\* usable string) the call still returns a result: its score is the sum of
\* the checks completed before the failure, its issues end with "Error during
\* analysis", and its status is the classification of that partial score.
C12_GracefulDegradation ==
    /\ ScoredWithError =>
          /\ analysis.score = FlagScore
          /\ Len(analysis.issues) >= 1
          /\ analysis.issues[Len(analysis.issues)] = "Error during analysis"
          /\ \A i \in 1..(Len(analysis.issues) - 1) :
                analysis.issues[i] # "Error during analysis"
          /\ (analysis.status = "danger") <=> (FlagScore >= 70)
          /\ (analysis.status = "warning") <=> (FlagScore >= 40 /\ FlagScore < 70)
          /\ (analysis.status = "safe") <=> (FlagScore < 40)
    /\ (Returned /\ ~NoErrorIssue) => ScoredWithError

\* The content is missing, the https check and the blacklist check had
\* completed: score 80, danger
C12_Witness ==
    /\ ScoredWithError
    /\ content = Undefined
    /\ url = "http://scam.example/apply?offer=act-now"
    /\ blacklist = <<"scam.example">>
    /\ analysis = [score |-> 80, status |-> "danger",
                   issues |-> <<"No HTTPS encryption", "Domain is blacklisted",
                                "Error during analysis">>]

\* C13: a scan whose content is absent or the empty string is scored with no
\* keyword match from the content, gets no "Error during analysis" issue,
\* and the keywords of the URL are still counted.
C13_MissingContentIsNoError ==
    (Returned /\ ~DomainOnWhitelist /\ content \in {Undefined, ""}) =>
        LET lu == toLowerCase(url)
        IN  /\ NoErrorIssue
            /\ analysis.score = FlagScore + 10 * KeywordCount("", lu)
                                    + 3 * CountOccurring(SUSPICIOUS_PATTERNS, "", lu)

\* The empty string is scored as the claim says: the URL keyword is counted
C13_ReachEmpty ==
    /\ ScoredWithoutError
    /\ content = ""
    /\ url = "https://example.com/apply?offer=act-now"
    /\ analysis = [score |-> 10, status |-> "safe",
                   issues |-> <<"urgency scam indicators: act-now">>]

\* C20: a call of calculateHeuristicScore leaves the blacklist, the
\* whitelist, the settings and its arguments as they were, on the normal,
\* the whitelisted and the error path.
C20_NoSideEffects ==
    [][analysis' # analysis =>
          UNCHANGED <<blacklist, whitelist, settings, url, content, domain>>]_vars

\* A call on the error path has returned with both lists non-empty
C20_Witness ==
    /\ ScoredWithError
    /\ blacklist = <<"scam.example">>
    /\ whitelist = <<"*.example.com">>
    /\ domain = "www.scam.example"
    /\ settings = defaultSettings

\* So have a call on the whitelisted path and one on the normal path that
\* found the domain dangerous
C20_ReachWhitelisted ==
    Returned /\ DomainOnWhitelist /\ blacklist # <<>> /\ analysis.issues = <<"Domain is whitelisted">>
C20_ReachNormal ==
    ScoredWithoutError /\ whitelist # <<>> /\ blacklist # <<>> /\ analysis.status = "danger"

\* The path a returned call took
OnWhitelistedPath == Returned /\ DomainOnWhitelist
OnNormalPath == ScoredWithoutError
OnErrorPath == ScoredWithError

\* C38: every result calculateHeuristicScore returns, on the normal, the
\* whitelisted and the error path alike, has an integer score >= 0 and the
\* status that classifies this score: danger iff score >= 70, warning iff
\* 40 <= score < 70, safe iff score < 40.
C38_ResultWellFormed ==
    analysis # Pending =>
        /\ OnWhitelistedPath \/ OnNormalPath \/ OnErrorPath
        /\ analysis.score \in Nat
        /\ analysis.status \in {"safe", "warning", "danger"}
        /\ analysis.status = "danger" <=> analysis.score >= 70
        /\ analysis.status = "warning" <=> (40 =< analysis.score /\ analysis.score < 70)
        /\ analysis.status = "safe" <=> analysis.score < 40
        /\ DOMAIN analysis = {"score", "status", "issues"}
        /\ \A i \in 1..Len(analysis.issues) : IsString(analysis.issues[i])

\* A call on the error path that returned a score of 70 or more
C38_Witness ==
    /\ OnErrorPath
    /\ analysis.score >= 70
    /\ analysis.status = "danger"

\* Calls on the whitelisted path and, with each status, on the normal path
C38_ReachWhitelisted == OnWhitelistedPath /\ analysis.score = 0 /\ analysis.status = "safe"
C38_ReachNormalSafe == OnNormalPath /\ analysis.score > 0 /\ analysis.status = "safe"
C38_ReachNormalWarning == OnNormalPath /\ analysis.status = "warning"
C38_ReachNormalDanger == OnNormalPath /\ analysis.status = "danger"
C38_ReachErrorSafe == OnErrorPath /\ analysis.status = "safe"

-----------------------------------------------------------------------------
(* Properties of two scans, checked under SpecMono *)

BothReturned ==
    /\ Returned
    /\ analysis2.status \in {"safe", "warning", "danger"}

\* The category keywords and the generic patterns
AllKeywords ==
    UNION {{NIGERIAN_SCAM_PATTERNS[i].keywords[k] :
               k \in 1..Len(NIGERIAN_SCAM_PATTERNS[i].keywords)} :
           i \in 1..Len(NIGERIAN_SCAM_PATTERNS)}
        \cup {SUSPICIOUS_PATTERNS[k] : k \in 1..Len(SUSPICIOUS_PATTERNS)}

\* The keywords and patterns a scan's URL or content contains; a content
\* that is absent contains none
Contained(u, c) ==
    LET lu == toLowerCase(u)
        lc == IF IsString(c) THEN toLowerCase(c) ELSE ""
    IN  {k \in AllKeywords : Occurs(k, lc, lu)}

\* The second scan contains all the first contains plus at least one more
SecondContainsMore ==
    LET first == Contained(url, content)
        second == Contained(url2, content2)
    IN  first \subseteq second /\ first # second

-----------------------------------------------------------------------------
(* Properties of the blocking rules, checked under SpecRules *)

\* Invocation i compiles newRules in this step: it passes line 331
Compiles(i) ==
    /\ updates[i].pc \in {"getDynamicRules", "removeRules"}
    /\ updates'[i].pc = "addRules" \/ updates'[i].outcome = "updated"

\* The blacklist entry at position k matches some whitelist entry
EntryWhitelisted(k) == \E j \in 1..Len(whitelist) : domainMatches(blacklist[k], whitelist[j])

\* The blacklist entry at position k is a wildcard *.base
EntryWildcard(k) == startsWith(cleanDomain(blacklist[k]), "*.")

\* Rule r redirects the main frame to the blocked page of the entry d
RedirectsFor(r, d) ==
    /\ r.action.type = "redirect"
    /\ r.action.redirect.extensionPath = "/blocked.html?url=" \o encodeURIComponent(d)
    /\ r.condition.resourceTypes = <<"main_frame">>

\* The rules of the sequence rules that redirect for d with the filter f
RulesWith(rules, d, f) ==
    {a \in 1..Len(rules) : RedirectsFor(rules[a], d) /\ rules[a].condition.urlFilter = f}

\* C16: compiling gives, for every blacklist entry that matches no whitelist
\* entry, one redirect rule for the entry plus one for its www. variant
\* unless the entry is a wildcard, and no rule for an entry that matches a
\* whitelist entry; the blacklist <<"scam.example">> gives exactly two rules
\* with the empty whitelist and none with the whitelist <<"scam.example">>.
C16_RuleCompilation ==
    [][\A i \in 1..Len(updates) :
          Compiles(i) =>
              LET rules == updates'[i].newRules
              IN  /\ Len(rules) =
                        Cardinality({p \in (1..Len(blacklist)) \X {"entry", "www"} :
                                        /\ ~EntryWhitelisted(p[1])
                                        /\ p[2] = "www" => ~EntryWildcard(p[1])})
                  /\ \A k \in 1..Len(blacklist) :
                        LET d == blacklist[k]
                            c == cleanDomain(d)
                        IN  IF EntryWhitelisted(k)
                            THEN \A a \in 1..Len(rules) : ~RedirectsFor(rules[a], d)
                            ELSE IF EntryWildcard(k)
                            THEN /\ Cardinality(RulesWith(rules, d,
                                        "*://*." \o substring(c, 2) \o "/*")) = 1
                                 /\ Cardinality({a \in 1..Len(rules) :
                                                    RedirectsFor(rules[a], d)}) = 1
                            ELSE /\ Cardinality(RulesWith(rules, d, "*://" \o c \o "/*")) = 1
                                 /\ Cardinality(RulesWith(rules, d, "*://www." \o c \o "/*")) = 1
                                 /\ Cardinality({a \in 1..Len(rules) :
                                                    RedirectsFor(rules[a], d)}) = 2
                  /\ (blacklist = <<"scam.example">> /\ whitelist = <<>>) => Len(rules) = 2
                  /\ (blacklist = <<"scam.example">> /\ whitelist = <<"scam.example">>) =>
                        Len(rules) = 0
      ]_vars

\* The blacklist <<"scam.example">> compiled against the empty whitelist:
\* the rule of the entry and the rule of www.scam.example
C16_Witness ==
    /\ Len(updates) = 1
    /\ updates[1].pc = "addRules"
    /\ blacklist = <<"scam.example">>
    /\ whitelist = <<>>
    /\ updates[1].newRules =
          << redirectRule(1, "*://scam.example/*", "scam.example"),
             redirectRule(1000, "*://www.scam.example/*", "scam.example") >>

\* The same blacklist compiled against the whitelist <<"scam.example">>:
\* nothing to add
C16_ReachWhitelisted ==
    /\ Len(updates) = 1
    /\ updates[1].outcome = "updated"
    /\ updates[1].newRules = <<>>
    /\ settings.blockingEnabled
    /\ blacklist = <<"scam.example">>
    /\ whitelist = <<"scam.example">>

\* A wildcard entry was compiled to its single rule, an entry with scheme and
\* www. to the rules of its bare domain
C16_ReachWildcard ==
    /\ Len(updates) = 1
    /\ updates[1].pc = "addRules"
    /\ blacklist = <<"*.example.com", "scam.example">>
    /\ Len(updates[1].newRules) = 3
    /\ updates[1].newRules[1].condition.urlFilter = "*://*.example.com/*"
C16_ReachScheme ==
    /\ Len(updates) = 1
    /\ updates[1].pc = "addRules"
    /\ blacklist = <<"https://www.scam.example">>
    /\ updates[1].newRules[1].condition.urlFilter = "*://scam.example/*"
    /\ updates[1].newRules[1].action.redirect.extensionPath =
          "/blocked.html?url=https%3A%2F%2Fwww.scam.example"

\* The ids of a sequence of rules
IdsOf(rules) == {rules[a].id : a \in 1..Len(rules)}

\* C17: the rule of the entry at 0-based position p has id p + 1 and its www
\* rule has id p + 1000, and for a blacklist of any length the ids of the
\* rules compiled are pairwise distinct.
C17_RuleIds ==
    \A i \in 1..Len(updates) :
        LET rules == updates[i].newRules
        IN  /\ Cardinality(IdsOf(rules)) = Len(rules)
            /\ \A a \in 1..Len(rules) :
                  \E p \in {rules[a].id - 1, rules[a].id - 1000} :
                      /\ p \in 0..(Len(blacklist) - 1)
                      /\ RedirectsFor(rules[a], blacklist[p + 1])

\* A blacklist shorter than 1000 entries compiled: two rules per entry, all
\* ids different
C17_ReachDistinct ==
    /\ updates[1].pc = "addRules"
    /\ Len(blacklist) = 999
    /\ Len(updates[1].newRules) = 2 * 999
    /\ Cardinality(IdsOf(updates[1].newRules)) = 2 * 999

\* The invocation started last
LastUpdate == updates[Len(updates)]

\* The elements of a sequence of rules
RuleSet(rules) == {rules[a] : a \in 1..Len(rules)}

\* Rule r carries an id of position k (1-based) and redirects for the entry there
DerivedFrom(r, k) ==
    /\ r.id \in {k, k - 1 + 1000}
    /\ RedirectsFor(r, blacklist[k])

\* C18: after an updateBlockingRules run that executed alone and completed
\* without error, every installed dynamic rule was derived from an entry
\* currently in the blacklist, and no rule of an earlier compilation
\* survives: the installed rules are among those this run added.
C18_NoStaleRules ==
    (/\ Len(updates) >= 1
     /\ LastUpdate.pc = "done"
     /\ LastUpdate.alone
     /\ LastUpdate.outcome # "error") =>
        /\ \A r \in dynamicRules : \E k \in 1..Len(blacklist) : DerivedFrom(r, k)
        /\ dynamicRules \subseteq RuleSet(LastUpdate.newRules)

\* Two runs, each alone and without error: the second removed the rule
\* www.scam.example the first had installed and installed the wildcard rule
C18_Witness ==
    /\ Len(updates) = 2
    /\ updates[1].alone /\ updates[1].outcome = "updated"
    /\ updates[2].alone /\ updates[2].outcome = "updated" /\ updates[2].pc = "done"
    /\ updates[1].newRules =
          << redirectRule(1, "*://scam.example/*", "scam.example"),
             redirectRule(1000, "*://www.scam.example/*", "scam.example") >>
    /\ blacklist = <<"*.example.com", "scam.example">>
    /\ dynamicRules =
          { redirectRule(1, "*://*.example.com/*", "*.example.com"),
            redirectRule(2, "*://scam.example/*", "scam.example"),
            redirectRule(1001, "*://www.scam.example/*", "scam.example") }

\* A run alone and without error that returned at line 331 left no rule
C18_ReachDisabled ==
    /\ Len(updates) = 2
    /\ updates[1].alone /\ updates[1].outcome = "updated" /\ updates[1].newRules # <<>>
    /\ updates[2].alone /\ updates[2].outcome = "returned" /\ updates[2].pc = "done"
    /\ dynamicRules = {}

\* No invocation is running and no call is pending
Quiescent ==
    /\ callQueue = <<>>
    /\ \A i \in 1..Len(updates) : updates[i].pc = "done"

\* The rules of the current lists and settings
CompiledSet ==
    IF settings.blockingEnabled /\ Len(blacklist) > 0
    THEN RuleSet(compileRules(blacklist, whitelist))
    ELSE {}

\* C19: however the invocations of updateBlockingRules interleave and whether
\* or not a browser call fails, once all of them have finished the installed
\* rule set equals the rule set compiled from the final lists and settings;
\* it is never left empty or partial.
C19_NoPartialRuleSets ==
    (Len(updates) >= 1 /\ Quiescent) => dynamicRules = CompiledSet

\* Domains a browser may request
RequestedDomains ==
    {"scam.example", "www.scam.example", "example.com", "safe.example.com",
     "login.safe.example.com"}

\* Rule r redirects the main-frame requests for the pages of domain d
Covers(r, d) ==
    \E scheme \in Schemes : urlFilterMatches(r.condition.urlFilter, scheme \o d \o "/")

\* Some whitelist entry matches d
OnWhitelist(d) == \E k \in 1..Len(whitelist) : domainMatches(d, whitelist[k])

\* C26: for every blacklist and whitelist and every domain d matched by some
\* whitelist entry, no rule installed by an updateBlockingRules run (one that
\* executed alone and completed without error) has a URL filter that covers
\* d, wildcard and parent-domain blacklist entries included.
C26_WhitelistAuthoritative ==
    (/\ Len(updates) >= 1
     /\ LastUpdate.pc = "done"
     /\ LastUpdate.alone
     /\ LastUpdate.outcome # "error") =>
        \A r \in dynamicRules : \A d \in RequestedDomains :
            OnWhitelist(d) => ~Covers(r, d)

\* The run installed the rule of the wildcard entry although a subdomain it
\* covers is on the whitelist
C26_ReachWildcardOverWhitelist ==
    /\ Len(updates) >= 1
    /\ LastUpdate.pc = "done" /\ LastUpdate.alone /\ LastUpdate.outcome = "updated"
    /\ whitelist = <<"safe.example.com">>
    /\ \E r \in dynamicRules :
          /\ r.condition.urlFilter = "*://*.example.com/*"
          /\ Covers(r, "safe.example.com")
          /\ ~Covers(r, "example.com")

-----------------------------------------------------------------------------
(* Properties of the blocking decisions, checked under SpecNav and          *)
(* SpecRequest                                                              *)

\* Some blacklist entry matches d
OnBlacklist(d) == \E k \in 1..Len(blacklist) : domainMatches(d, blacklist[k])

\* The URL is one of the extension's blocked page
IsBlockedPage(u) == startsWith(u, "chrome-extension://fountainscan/blocked.html?url=")

\* C24: shouldBlockDomain(domain) is true iff blocking is enabled, no
\* whitelist entry matches the domain and some blacklist entry matches it;
\* the tabs.onUpdated listener redirects a loading tab to blocked.html
\* exactly in that case, so a tab on a whitelisted domain is never redirected
\* by it, even when the domain is also blacklisted.
C24_NavigationBlocking ==
    [][/\ \A d \in RequestedDomains :
              shouldBlockDomain(d) <=>
                  (settings.blockingEnabled /\ ~OnWhitelist(d) /\ OnBlacklist(d))
       /\ \A tabId \in TabIds, status \in {"loading", "complete"}, tabUrl \in NavUrls :
              TabUpdated(tabId, status, tabUrl) =>
                  LET d == hostnameOf(tabUrl)
                  IN  /\ IsBlockedPage(tabs'[tabId]) <=>
                            (/\ status = "loading"
                             /\ settings.blockingEnabled
                             /\ ~OnWhitelist(d)
                             /\ OnBlacklist(d))
                      /\ IsBlockedPage(tabs'[tabId]) =>
                            tabs'[tabId] =
                                "chrome-extension://fountainscan/blocked.html?url="
                                    \o encodeURIComponent(tabUrl)
                                    \o "&reason=Domain is blacklisted"
                      /\ OnWhitelist(d) => tabs'[tabId] = tabUrl
      ]_vars

\* Tab 1 was redirected when it started loading a page of the blacklisted
\* scam.example
C24_Witness ==
    /\ settings.blockingEnabled
    /\ blacklist = <<"scam.example">>
    /\ whitelist = <<>>
    /\ tabs[1] = "chrome-extension://fountainscan/blocked.html?url="
                     \o "https%3A%2F%2Fwww.scam.example%2Fapply%3Foffer%3Dact-now"
                     \o "&reason=Domain is blacklisted"

\* Tab 1 loads a page of a domain both lists hold and is not redirected
C24_ReachWhitelistedAndBlacklisted ==
    /\ settings.blockingEnabled
    /\ blacklist = <<"scam.example">>
    /\ whitelist = <<"scam.example">>
    /\ tabs[1] = "http://scam.example/"

\* With blocking disabled the tab loads the blacklisted page
C24_ReachDisabled ==
    /\ ~settings.blockingEnabled
    /\ blacklist = <<"scam.example">>
    /\ whitelist = <<>>
    /\ tabs[1] = "http://scam.example/"

\* The quick-scan patterns the lower-cased URL contains
PatternsIn(u) ==
    LET lowerUrl == toLowerCase(u)
    IN  {p \in {allPatterns[i] : i \in 1..Len(allPatterns)} : includes(lowerUrl, p)}

\* C30: with blocking enabled, a main-frame request whose domain matches no
\* whitelist entry is redirected to blocked.html iff its lower-cased URL
\* contains at least two of the quick-scan patterns, and in that case its
\* domain is matched by the blacklist afterwards; a request to a whitelisted
\* domain is never redirected nor blacklisted by this listener.
C30_QuickScan ==
    [][LET detailsUrl == response'.details.url
           type == response'.details.type
       IN  WebRequest(detailsUrl, type) =>
               LET d == hostnameOf(detailsUrl)
               IN  /\ (settings.blockingEnabled /\ type = "main_frame" /\ ~OnWhitelist(d)) =>
                         (IsBlockedPage(response'.redirectUrl) <=>
                              Cardinality(PatternsIn(detailsUrl)) >= 2)
                   /\ response'.redirectUrl # "" =>
                         /\ IsBlockedPage(response'.redirectUrl)
                         /\ settings.blockingEnabled /\ type = "main_frame"
                         /\ \E k \in 1..Len(blacklist') : domainMatches(d, blacklist'[k])
                   /\ OnWhitelist(d) =>
                         response'.redirectUrl = "" /\ blacklist' = blacklist
      ]_vars

\* The request for a URL with the two patterns urgent and quick-loan was
\* redirected and its domain added to the blacklist and saved
C30_Witness ==
    /\ response.details = [url |-> "https://example.com/URGENT-Quick-Loan",
                           type |-> "main_frame"]
    /\ IsBlockedPage(response.redirectUrl)
    /\ blacklist = <<"scam.example", "example.com">>
    /\ "blacklist" \in DOMAIN storage
    /\ storage["blacklist"] = blacklist
    /\ Len(updates) = 1

\* A request whose URL holds one pattern only is let through
C30_ReachOnePattern ==
    /\ settings.blockingEnabled
    /\ response.details = [url |-> "https://www.scam.example/apply?offer=act-now",
                           type |-> "main_frame"]
    /\ whitelist = <<>>
    /\ response.redirectUrl = ""

\* A request to a whitelisted domain with two patterns is let through
C30_ReachWhitelisted ==
    /\ settings.blockingEnabled
    /\ whitelist = <<"*.example.com">>
    /\ response.details = [url |-> "https://example.com/URGENT-Quick-Loan",
                           type |-> "main_frame"]
    /\ response.redirectUrl = ""

-----------------------------------------------------------------------------
(* Properties of the message handlers, checked under SpecHandlers and       *)
(* SpecWorker                                                               *)

\* The invocations of handlePageContent that have finished
FinishedScans ==
    {i \in 1..Len(tasks) : tasks[i].type = "PAGE_CONTENT" /\ tasks[i].pc = "done"}

\* The notification of the scan of invocation i was asked for
Notified(i) ==
    [domain |-> tasks[i].domain, status |-> tasks[i].analysis.status,
     score |-> tasks[i].analysis.score] \in notifications

\* Invocation i went through handleTabBlocking
Blocked(i) == tasks[i].update # 0

\* The snapshot of invocation i is stored under the key of its sender tab
Stored(i) ==
    LET key == "scan_" \o ToString(tasks[i].senderTab)
    IN  /\ key \in DOMAIN storage
        /\ storage[key] = [url |-> tasks[i].url, domain |-> tasks[i].domain,
                           analysis |-> tasks[i].analysis, timestamp |-> now]

\* Invocation i used its scan result as handlePageContent is meant to
UsedScanResult(i) ==
    /\ Notified(i) <=> (settings.alertsEnabled /\ tasks[i].analysis.status # "safe")
    /\ Blocked(i) <=> (/\ settings.blockingEnabled
                       /\ tasks[i].analysis.status = "danger"
                       /\ tasks[i].senderTab # NoTab)
    /\ tasks[i].outcome = "returned"
    /\ Stored(i)

\* C21: for every PAGE_CONTENT message, handlePageContent shows a
\* notification iff alertsEnabled and the status is not 'safe', blocks the
\* tab iff blockingEnabled and the status is 'danger' and the sender has a
\* tab, and in every case finishes by storing {url, domain, analysis,
\* timestamp} under the key scan_<sender tab id>.
C21_UseOfScanResult == \A i \in FinishedScans : UsedScanResult(i)

\* The same for the messages whose sender has a tab: it holds
C21_UseOfScanResultOfTabs ==
    \A i \in FinishedScans : tasks[i].senderTab # NoTab => UsedScanResult(i)

\* A message from a sender without a tab ended in the TypeError of
\* sender.tab.id and nothing was stored
C21_ReachNoTab ==
    \E i \in FinishedScans :
        /\ tasks[i].senderTab = NoTab
        /\ tasks[i].outcome = "TypeError"
        /\ tasks[i].analysis.status = "danger"
        /\ Notified(i) /\ ~Blocked(i)
        /\ DOMAIN storage = {}

\* A message of tab 1 was notified, blocked and stored
C21_ReachAll ==
    \E i \in FinishedScans :
        /\ tasks[i].senderTab = 1
        /\ Notified(i) /\ Blocked(i) /\ Stored(i)
        /\ tasks[i].analysis.score = 79

\* The step calls handleTabBlocking in invocation i: the invocation is new
\* or was awaiting the notification, and stops at an await of handleTabBlocking
CallsTabBlocking(i) ==
    /\ i \in 1..Len(tasks')
    /\ i \in 1..Len(tasks) => tasks[i].pc = "notify"
    /\ tasks'[i].pc \in {"saveBlacklist", "updateRules"}

\* The step resumes invocation i inside handleTabBlocking
RunsTabBlocking(i) ==
    /\ i \in 1..Len(tasks)
    /\ tasks[i].pc \in {"saveBlacklist", "updateRules", "queryTabs", "updateTab"}
    /\ tasks'[i] # tasks[i]

\* C27: handleTabBlocking(url) appends the URL's lower-cased hostname to the
\* blacklist and persists the list only when no existing blacklist entry
\* matches that hostname via domainMatches; otherwise the blacklist is left
\* unchanged.  After it returns, some blacklist entry matches the hostname.
C27_AddsOnlyWhenAbsent ==
    [][\A i \in 1..Len(tasks') :
          LET d == toLowerCase(hostnameOf(tasks'[i].url))
          IN  /\ CallsTabBlocking(i) =>
                    IF OnBlacklist(d)
                    THEN blacklist' = blacklist /\ storage' = storage
                    ELSE /\ blacklist' = Append(blacklist, d)
                         /\ "blacklist" \in DOMAIN storage'
                         /\ storage'["blacklist"] = blacklist'
              /\ RunsTabBlocking(i) =>
                    /\ blacklist' = blacklist
                    /\ tasks[i].pc = "updateTab" =>
                          /\ tasks'[i].pc \in {"saveScan", "done"}
                          /\ \E k \in 1..Len(blacklist') : domainMatches(d, blacklist'[k])
      ]_vars

\* handleTabBlocking, called for a page of scam.example with an empty
\* blacklist, has added and saved the domain and has returned
C27_Witness ==
    \E i \in 1..Len(tasks) :
        /\ tasks[i].type = "blockCurrentTab"
        /\ tasks[i].pc = "done"
        /\ tasks[i].domain = "scam.example"
        /\ blacklist = <<"scam.example">>
        /\ "blacklist" \in DOMAIN storage
        /\ storage["blacklist"] = <<"scam.example">>

\* handleTabBlocking, called from handlePageContent for a page of the
\* blacklisted scam.example, has returned and nothing was saved
C27_ReachPresent ==
    \E i \in FinishedScans :
        /\ Blocked(i)
        /\ tasks[i].domain = "scam.example"
        /\ blacklist = <<"scam.example">>
        /\ "blacklist" \notin DOMAIN storage

\* The step redirects tab t to the blocked page
Redirects(t) == tabs'[t] # tabs[t] /\ IsBlockedPage(tabs'[t])

\* C25: in every reachable state where settings.blockingEnabled is false in
\* the background, no event or message makes the background redirect a tab
\* to blocked.html, and once the updateBlockingRules runs have completed
\* (none of them with an error) the installed dynamic rule set is empty.
C25_DisabledMeansNoBlocking ==
    [][/\ (\E t \in TabIds : Redirects(t)) => settings.blockingEnabled
       /\ (/\ ~settings'.blockingEnabled
           /\ Len(updates') >= 1
           /\ callQueue' = <<>>
           /\ \A i \in 1..Len(updates') :
                  updates'[i].pc = "done" /\ updates'[i].outcome # "error") =>
              dynamicRules' = {}
      ]_vars

\* The rule part of C25 alone: it holds
C25_DisabledMeansNoRules ==
    (/\ ~settings.blockingEnabled
     /\ Len(updates) >= 1
     /\ Quiescent
     /\ \A i \in 1..Len(updates) : updates[i].outcome # "error") =>
        dynamicRules = {}

\* A tab shows the blocked page although blocking is disabled and was
\* disabled when handleTabBlocking asked the browser for the active tab
C25_ReachRedirectWhileDisabled ==
    /\ ~settings.blockingEnabled
    /\ \E i \in 1..Len(tasks), t \in TabIds :
          /\ tasks[i].type = "PAGE_CONTENT"
          /\ tasks[i].pc = "updateTab"
          /\ IsBlockedPage(tabs[t])
          /\ Len(updates) = 2
          /\ updates[2].outcome = "returned"

\* C28: on every path by which the background adds a domain to the
\* blacklist on its own, the domain matches no whitelist entry at the moment
\* it is added, also when an updateSettings message is processed while
\* handlePageContent is suspended at an await.
C28_WhitelistedNeverAutoBlacklisted ==
    [][Len(blacklist') > Len(blacklist) =>
          ~\E k \in 1..Len(whitelist) :
               domainMatches(blacklist'[Len(blacklist')], whitelist[k])
      ]_vars

\* scam.example is on the whitelist and was put on the blacklist by the
\* handler of a page of scam.example
C28_ReachWhitelistedAdded ==
    /\ whitelist = <<"scam.example">>
    /\ blacklist = <<"scam.example">>
    /\ \E i \in 1..Len(tasks) :
          tasks[i].type = "PAGE_CONTENT" /\ tasks[i].pc = "saveBlacklist"

\* C29: when handlePageContent decides to block (blocking enabled, status
\* 'danger'), the tab that is redirected to blocked.html is the sender tab
\* whose page was scored, also when another tab has become the active tab
\* between the scan and the redirect.
C29_BlockedTabIsScannedTab ==
    [][\A i \in 1..Len(tasks) :
          (/\ tasks[i].type = "PAGE_CONTENT"
           /\ tasks[i].pc = "queryTabs"
           /\ tasks'[i].pc = "updateTab") =>
              /\ Redirects(tasks[i].senderTab)
              /\ \A t \in TabIds \ {tasks[i].senderTab} : tabs'[t] = tabs[t]
      ]_vars

\* The page of tab 1 was scored, and tab 2 shows the blocked page while tab 1
\* still shows the page
C29_ReachOtherTabBlocked ==
    \E i \in 1..Len(tasks) :
        /\ tasks[i].type = "PAGE_CONTENT"
        /\ tasks[i].senderTab = 1
        /\ tasks[i].pc = "done"
        /\ tabs[1] = tasks[i].url
        /\ IsBlockedPage(tabs[2])

-----------------------------------------------------------------------------
(* Properties of the cleanup, checked under SpecCleanup *)

\* The stored scan results that are more than one hour old
ExpiredScans ==
    {key \in DOMAIN storage :
        startsWith(key, "scan_") /\ storage[key].timestamp < now - oneHour}

\* C22: each run of the hourly cleanup removes exactly the stored entries
\* whose key starts with 'scan_' and whose timestamp is more than one hour
\* old; scan entries younger than one hour and all other keys (settings,
\* blacklist, whitelist) are left unchanged.
C22_CacheExpiry ==
    [][(cleanup.pc = "get" /\ cleanup'.pc # "get") =>
           /\ DOMAIN storage' = DOMAIN storage \ ExpiredScans
           /\ \A key \in DOMAIN storage' : storage'[key] = storage[key]
      ]_vars

\* The same when no scan result is stored while the cleanup awaits the
\* storage content: it holds
C22_CacheExpiryUndisturbed ==
    [][(cleanup.pc = "get" /\ cleanup'.pc # "get" /\ cleanup.storage = storage) =>
           /\ DOMAIN storage' = DOMAIN storage \ ExpiredScans
           /\ \A key \in DOMAIN storage' : storage'[key] = storage[key]
      ]_vars

\* A run removed the old result of tab 1 and kept the younger result of
\* tab 2, the settings and the blacklist
C22_ReachRemovedOld ==
    /\ cleanup.pc = "remove"
    /\ DOMAIN storage = {"settings", "blacklist", "scan_2"}
    /\ storage["scan_2"].timestamp >= now - oneHour

\* The result of tab 1 stored while the cleanup awaited the storage content
\* was removed: the handler has finished and its result is not stored
C22_ReachRemovedFresh ==
    /\ cleanup.pc = "remove"
    /\ \E i \in FinishedScans :
          /\ tasks[i].senderTab = 1
          /\ tasks[i].outcome = "returned"
          /\ "scan_1" \notin DOMAIN storage

-----------------------------------------------------------------------------
(* Properties of the content script, checked under SpecPage *)

\* C23: in one content script, at least ANALYSIS_THROTTLE (2000 ms) elapse
\* between any two executions of the analysis body that sends PAGE_CONTENT,
\* and none starts while isAnalyzing is true, whatever mix of triggers fires
\* (initial timer, mutation debounce, SPA URL change, popstate, focus,
\* visibility change, FORCE_SCAN).
C23_RescanCooldown ==
    /\ \A k \in 1..Len(executions) : ~executions[k].isAnalyzing
    /\ \A k \in 1..(Len(executions) - 1) :
          executions[k + 1].at - executions[k].at >= 2000

\* The analysis body has run twice, 2000 ms apart, the second time from the
\* debounce timeout while a FORCE_SCAN or timeout in between was refused
C23_Witness ==
    /\ Len(executions) = 2
    /\ executions[2].at - executions[1].at = 2000
    /\ isAnalyzing
    /\ debounceTimers = {}
    /\ burst = 1

\* The last clock value of a run
Horizon == pageLoaded + MaxPageTicks * halfSecond

\* The times a debounce timeout can be due within a run
DueTimes ==
    {pageLoaded + k * halfSecond + CONTENT_CHANGE_DELAY :
        k \in 0..(MaxPageTicks - CONTENT_CHANGE_DELAY \div halfSecond)}

\* This step is a call of debouncedAnalysis that changes the pending timeouts
IsDebounceCall == debounceTimers' # debounceTimers /\ (now + CONTENT_CHANGE_DELAY) \in debounceTimers'

\* This step is the run of a debounce timeout
IsDebounceRun == debounceTimers' # debounceTimers /\ (now + CONTENT_CHANGE_DELAY) \notin debounceTimers'

\* At most one debounce timeout is pending, the one set last
OnePending == Cardinality(debounceTimers) <= 1 /\ debounceTimers \subseteq {analysisTimer}

\* A call leaves exactly the timeout it sets, due CONTENT_CHANGE_DELAY later
CallCancels ==
    (now + CONTENT_CHANGE_DELAY) \in debounceTimers' =>
        /\ debounceTimers' = {now + CONTENT_CHANGE_DELAY}
        /\ analysisTimer' = now + CONTENT_CHANGE_DELAY

\* A debounce timeout that runs is the one the last call set, it is due, no
\* call was made during the CONTENT_CHANGE_DELAY before, none is pending
\* afterwards, and analyzePageContent runs its body at most once
RunsWhenDue ==
    IsDebounceRun =>
        /\ debounceTimers = {analysisTimer}
        /\ analysisTimer <= now
        /\ debounceTimers' = {}
        /\ burst' = burst
        /\ \/ executions' = executions
           \/ executions' = Append(executions, [at |-> now, isAnalyzing |-> FALSE])

\* C31 as stated: a burst of calls of debouncedAnalysis, each less than
\* CONTENT_CHANGE_DELAY after the one before, leads to exactly one call of
\* analyzePageContent; so a call made CONTENT_CHANGE_DELAY or more after the
\* one before finds the timeout of that burst run, none pending.
C31_BurstLeadsToOneCall ==
    [][(IsDebounceCall /\ analysisTimer <= now) => debounceTimers = {}]_vars

\* C31: at most one debounce timeout is pending; each call of
\* debouncedAnalysis cancels the pending one and sets one due
\* CONTENT_CHANGE_DELAY (1000 ms) later; a debounce timeout calls
\* analyzePageContent only when it is due, that is when no call of
\* debouncedAnalysis was made during the 1000 ms before, and once for the
\* calls made since none was pending; a pending timeout is eventually run
\* unless a later call has cancelled it.
C31_Debounce ==
    /\ []OnePending
    /\ [][CallCancels /\ RunsWhenDue]_vars
    /\ \A d \in DueTimes : (d \in debounceTimers) ~> (d \notin debounceTimers)

\* The timeout of a burst of two or more calls has run, at its due time or
\* later, and started the analysis
C31_Witness ==
    /\ burst = MaxBurst
    /\ debounceTimers = {}
    /\ analysisTimer <= now
    /\ Len(executions) >= 1
    /\ executions[Len(executions)].at >= analysisTimer

\* A call finds the timeout of the call made 1000 ms before still pending
C31_ReachCancelledWhenDue ==
    /\ debounceTimers = {analysisTimer}
    /\ analysisTimer = now + CONTENT_CHANGE_DELAY
    /\ burst = MaxBurst
    /\ now >= pageLoaded + CONTENT_CHANGE_DELAY

-----------------------------------------------------------------------------
(* Properties of handleAddToWhitelist, checked under SpecAddToWhitelist *)

\* Invocation i returns true in this step
ReturnsTrue(i) ==
    /\ whitelistCalls[i].outcome = "running"
    /\ whitelistCalls'[i].outcome = "true"

\* This step starts an invocation for a domain for which an earlier
\* invocation has returned true
CalledASecondTime ==
    /\ Len(whitelistCalls') = Len(whitelistCalls) + 1
    /\ \E j \in 1..Len(whitelistCalls) :
          /\ whitelistCalls[j].outcome = "true"
          /\ whitelistCalls[j].domain = whitelistCalls'[Len(whitelistCalls')].domain

\* No entry of the list equals d ignoring letter case
HoldsNoVariant(list, d) == \A k \in 1..Len(list) : ~equalIgnoringCase(list[k], d)

\* C34 as stated: after handleAddToWhitelist(domain) has returned true the
\* whitelist contains the domain itself and the blacklist contains no entry
\* equal to it ignoring letter case; a second call with the same domain
\* changes neither list.
C34_WhitelistHoldsDomain ==
    [][/\ \A i \in 1..Len(whitelistCalls) :
             ReturnsTrue(i) =>
                 /\ \E k \in 1..Len(whitelist') : whitelist'[k] = whitelistCalls[i].domain
                 /\ HoldsNoVariant(blacklist', whitelistCalls[i].domain)
       /\ CalledASecondTime => UNCHANGED <<whitelist, blacklist>>
      ]_vars

\* C34: after handleAddToWhitelist(domain) has returned true the whitelist
\* contains an entry equal to the domain ignoring letter case (the domain
\* itself unless such an entry was there before the call) and the blacklist
\* contains no entry equal to the domain ignoring letter case; a second call
\* with the same domain changes neither list.
C34_AddToWhitelist ==
    [][/\ \A i \in 1..Len(whitelistCalls) :
             ReturnsTrue(i) =>
                 /\ ~HoldsNoVariant(whitelist', whitelistCalls[i].domain)
                 /\ HoldsNoVariant(blacklist', whitelistCalls[i].domain)
       /\ Len(whitelistCalls') = Len(whitelistCalls) + 1 =>
             LET d == whitelistCalls'[Len(whitelistCalls')].domain
             IN  /\ HoldsNoVariant(whitelist, d) => whitelist' = Append(whitelist, d)
                 /\ ~HoldsNoVariant(whitelist, d) => whitelist' = whitelist
                 /\ HoldsNoVariant(blacklist', d)
                 /\ Len(blacklist') >= Len(blacklist) - 1
       /\ CalledASecondTime => UNCHANGED <<whitelist, blacklist>>
      ]_vars

\* Two calls for a blacklisted domain have returned true: the domain has
\* left the blacklist, the whitelist holds it once, both lists are stored
C34_Witness ==
    /\ Len(whitelistCalls) = 2
    /\ \A i \in 1..2 : whitelistCalls[i] = [domain |-> "scam.example", pc |-> "done",
                                              outcome |-> "true", update |-> i]
    /\ whitelist = <<"safe.example.com", "scam.example">>
    /\ blacklist = <<"example.com">>
    /\ storage["whitelist"] = whitelist
    /\ storage["blacklist"] = blacklist

\* A call for Scam.Example has returned true and the whitelist holds
\* scam.example only
C34_ReachOtherCase ==
    /\ Len(whitelistCalls) = 1
    /\ whitelistCalls[1].domain = "Scam.Example"
    /\ whitelistCalls[1].outcome = "true"
    /\ whitelist = <<"scam.example">>

-----------------------------------------------------------------------------
(* Properties of the popup *)

\* The stored settings have blocking enabled and the stored blacklist holds
\* an entry
PersistedProtection ==
    /\ "settings" \in DOMAIN storage
    /\ storage["settings"].blockingEnabled
    /\ "blacklist" \in DOMAIN storage
    /\ storage["blacklist"] # <<>>

\* C32, checked under SpecPopupInit: while the stored settings have blocking
\* enabled and the stored blacklist is not empty, the service worker at no
\* point during or after the popup's init holds blockingEnabled = false, an
\* empty blacklist or an empty set of dynamic rules.
C32_OpeningKeepsProtection ==
    PersistedProtection =>
        /\ settings.blockingEnabled
        /\ blacklist # <<>>
        /\ dynamicRules # {}

\* The worker has taken the settings and lists the popup starts with and
\* has removed every dynamic rule, while the storage asks for protection
C32_ReachNoRules ==
    /\ PersistedProtection
    /\ popup.pc = "open"
    /\ ~settings.blockingEnabled
    /\ blacklist = <<>>
    /\ dynamicRules = {}
    /\ callQueue = <<>>

\* The popup's storage reads have answered and the worker still holds what
\* the popup sent before
C32_ReachLoadedPopup ==
    /\ PersistedProtection
    /\ popup.pc = "open"
    /\ ~popup.settingsPending
    /\ ~popup.listsPending
    /\ popup.settings.blockingEnabled
    /\ popup.blacklist = storage["blacklist"]
    /\ ~settings.blockingEnabled

\* No two entries of the list are equal ignoring letter case
DuplicateFree(list) ==
    \A i, j \in 1..Len(list) : equalIgnoringCase(list[i], list[j]) => i = j

\* No entry of one list equals an entry of the other ignoring letter case
Disjoint(wl, bl) ==
    \A i \in 1..Len(wl), j \in 1..Len(bl) : ~equalIgnoringCase(wl[i], bl[j])

PopupIsOpen == popup.pc # "closed"

\* C37, checked under SpecPopupLists: the popup's lists, loaded from stored
\* lists that are duplicate-free and disjoint, hold no two entries equal
\* ignoring case and no domain in both lists, whatever addToList,
\* removeFromList and addCurrentToWhitelist have done.
C37_ListsDuplicateFreeAndDisjoint ==
    PopupIsOpen =>
        /\ DuplicateFree(popup.whitelist)
        /\ DuplicateFree(popup.blacklist)
        /\ Disjoint(popup.whitelist, popup.blacklist)

\* The half of C37 that holds: neither list holds two entries equal
\* ignoring case
C37_DuplicateFree ==
    PopupIsOpen => DuplicateFree(popup.whitelist) /\ DuplicateFree(popup.blacklist)

\* addToList alone keeps the lists disjoint: a step that leaves the view
\* and the position of the popup as they are does not put a domain into
\* both lists
C37_AddToListKeepsDisjoint ==
    [][(/\ PopupIsOpen
        /\ popup.pc = "open"
        /\ popup'.pc = "open"
        /\ ~popup.listsPending
        /\ Disjoint(popup.whitelist, popup.blacklist))
          => Disjoint(popup'.whitelist, popup'.blacklist)]_vars

\* The popup has whitelisted the blacklisted page it reported, and both
\* lists, in the popup and in the storage, hold scam.example
C37_ReachInBothLists ==
    /\ PopupIsOpen
    /\ popup.pc = "queryTabs"
    /\ popup.whitelist = <<"scam.example">>
    /\ popup.blacklist = <<"scam.example">>
    /\ storage["whitelist"] = <<"scam.example">>
    /\ storage["blacklist"] = <<"scam.example">>

\* The step is a removeFromList of the popup for an entry equal to e
\* ignoring case in the list named
RemovesExplicitly(listType, e) ==
    /\ PopupIsOpen
    /\ popup.pc = "open"
    /\ \E d \in {popup[listType][i] : i \in 1..Len(popup[listType])} :
          /\ equalIgnoringCase(d, e)
          /\ popup' = removeFromList(popup, listType, d)

\* The stored list of the name, empty when the key is not stored
Persisted(st, listType) == IF listType \in DOMAIN st THEN st[listType] ELSE <<>>

\* C33, checked under SpecLists: an entry of a persisted list stays in it
\* at every step that is not the explicit removal of that entry, whatever
\* the order in which the popup and the service worker read and write the
\* storage and the worker handles the popup's messages.
C33_NoLostListUpdates ==
    [][\A listType \in {"whitelist", "blacklist"} :
          \A i \in 1..Len(Persisted(storage, listType)) :
              LET e == Persisted(storage, listType)[i]
              IN  \/ \E j \in 1..Len(Persisted(storage', listType)) :
                         Persisted(storage', listType)[j] = e
                  \/ RemovesExplicitly(listType, e)
      ]_vars

\* The worker has taken the popup's empty lists and has stored a blacklist
\* of the requested domain alone: the stored entry scam.example is gone
C33_ReachLostByWorker ==
    /\ PopupIsOpen
    /\ blacklist = <<"free-scholarship-ng.tk">>
    /\ storage["blacklist"] = <<"free-scholarship-ng.tk">>

\* The popup has removed scam.example from the blacklist it had loaded and
\* has stored its lists: the entry the worker had added meanwhile is gone
C33_ReachLostByPopup ==
    /\ PopupIsOpen
    /\ popup.blacklist = <<>>
    /\ ~popup.listsPending
    /\ storage["blacklist"] = <<>>
    /\ blacklist = <<"scam.example", "free-scholarship-ng.tk">>

-----------------------------------------------------------------------------
(* Properties of the blocked page, checked under SpecBlocked *)

\* init has returned: the block info is loaded and the buttons are set up
BlockedPageReady == blockedPage.pc \in {"ready", "get"}

\* The query parameter of the page's address, the empty string when absent
QueryParam(name) == orElse(searchParamsGet(searchOf(blockedPage.address), name), "")

\* C36: whenever the service worker does not supply block info to the
\* blocked page (chrome.runtime is absent, sending the message fails, or the
\* reply is empty), loadBlockInfo takes currentUrl, reasonFlagged and
\* riskLevel from the query parameters of the page, so after init
\* currentUrl equals the 'url' query parameter.
C36_BlockInfoFallback ==
    BlockedPageReady =>
        /\ blockedPage.currentUrl = QueryParam("url")
        /\ blockedPage.reasonFlagged = QueryParam("reason_flagged")
        /\ blockedPage.riskLevel = orElse(QueryParam("riskLevel"), "High Risk")

\* The same for the pages that find no chrome.runtime or whose sendMessage
\* throws: it holds
C36_FallbackWithoutReplyAwaited ==
    (BlockedPageReady /\ blockedPage.runtime # "present") =>
        /\ blockedPage.currentUrl = QueryParam("url")
        /\ blockedPage.reasonFlagged = QueryParam("reason_flagged")
        /\ blockedPage.riskLevel = orElse(QueryParam("riskLevel"), "High Risk")

\* The page got no reply and shows no URL although its address names one
C36_ReachEmptyUrl ==
    /\ BlockedPageReady
    /\ blockedPage.runtime = "present"
    /\ blockedPage.currentUrl = ""
    /\ QueryParam("url") = "http://scam.example/"

\* The page read its query parameters after sendMessage threw
C36_ReachFallback ==
    /\ BlockedPageReady
    /\ blockedPage.runtime = "throws"
    /\ blockedPage.currentUrl = "https://www.scam.example/apply?offer=act-now"
    /\ blockedPage.riskLevel = "High Risk"

\* The user has clicked 'Add to Whitelist' and the handler has run
Clicked == blockedPage.pc # "closed" /\ blockedPage.clicked

\* The domain the blocked page was shown for
BlockedDomain == toLowerCase(hostnameOf(QueryParam("url")))

\* The tab shows the blocked page for a URL of this domain
BlockedFor(u, d) ==
    /\ IsBlockedPage(u)
    /\ toLowerCase(hostnameOf(orElse(searchParamsGet(searchOf(u), "url"), ""))) = d

\* C35: after the user has clicked 'Add to Whitelist' on blocked.html, the
\* blocking decisions of the service worker use a whitelist that contains
\* the domain: the whitelist matches it, and no tab that loads a page of the
\* domain is sent to the blocked page again.
C35_WhitelistingTakesEffect ==
    [][Clicked =>
          /\ OnWhitelist(BlockedDomain)
          /\ \A t \in TabIds :
                tabs'[t] # tabs[t] => ~BlockedFor(tabs'[t], BlockedDomain)
      ]_vars

\* After the click the domain is on no list the service worker or the
\* storage holds, and another tab that loads the site is redirected
C35_ReachBlockedAgain ==
    /\ Clicked
    /\ blockedPage.tab = 1
    /\ BlockedDomain = "scam.example"
    /\ ~OnWhitelist(BlockedDomain)
    /\ "whitelist" \notin DOMAIN storage
    /\ BlockedFor(tabs[2], "scam.example")

-----------------------------------------------------------------------------
(* Properties of domain matching, checked under SpecMatch *)

Matched == matchResult \in {"true", "false", "TypeError"}

\* C4: for every domain string d, domainMatches(d, d) is true.
C4_Reflexive ==
    (Matched /\ IsString(currentDomain) /\ listDomain = currentDomain) =>
        matchResult = "true"

C4_Witness ==
    /\ matchResult = "true"
    /\ currentDomain = "WWW.Example.com"
    /\ listDomain = currentDomain

\* The candidate or pattern is a domain that carries no scheme and no www. prefix
IsBare(s) ==
    /\ IsString(s)
    /\ s # ""
    /\ ~startsWith(toLowerCase(s), "www.")
    /\ ~startsWith(toLowerCase(s), "http")

\* The strings that differ from s only in letter case and in a leading www.
\* prefix written in any letter case
Variants(s) ==
    IF IsBare(s)
    THEN {s, toLowerCase(s), toUpperCase(s),
          "www." \o s, "WWW." \o s, "Www." \o s}
    ELSE {s}

\* C5: domainMatches(c, p) has the same value as domainMatches(c', p')
\* whenever c' and p' differ from c and p only in letter case and in an
\* optional leading www. prefix, written in any letter case, on either side.
C5_CaseAndWwwInsensitive ==
    (matchResult \in {"true", "false"}) =>
        \A c \in Variants(currentDomain), p \in Variants(listDomain) :
            domainMatches(c, p) <=> (matchResult = "true")

\* s ends with suffix / starts with prefix, by decomposition
HasSuffix(s, suffix) == \E k \in 0..Len(s) : s = SubSeq(s, 1, k) \o suffix
HasPrefix(s, prefix) == \E k \in 0..Len(s) : s = prefix \o SubSeq(s, k + 1, Len(s))

\* C6: with both inputs normalized, domainMatches(c, p) is true iff c = p, or
\* c ends with "." + p, or p starts with "*." and c equals or ends with "." +
\* (p without "*."); so a.b.example.com and example.com match *.example.com
\* and notexample.com matches neither *.example.com nor example.com.
C6_MatchingRules ==
    (matchResult \in {"true", "false"}) =>
        LET c == cleanDomain(currentDomain)
            p == cleanDomain(listDomain)
        IN  /\ (matchResult = "true") <=>
                  \/ c = p
                  \/ HasSuffix(c, "." \o p)
                  \/ /\ HasPrefix(p, "*.")
                     /\ \E base \in {SubSeq(p, 3, Len(p))} :
                           c = base \/ HasSuffix(c, "." \o base)
            /\ (currentDomain \in {"a.b.example.com", "example.com"}
                    /\ listDomain = "*.example.com") => matchResult = "true"
            /\ (currentDomain = "notexample.com"
                    /\ listDomain \in {"*.example.com", "example.com"}) => matchResult = "false"

C6_Witness ==
    /\ matchResult = "false"
    /\ currentDomain = "notexample.com"
    /\ listDomain = "*.example.com"

\* The wildcard cases that match are reached too
C6_ReachWildcard ==
    /\ matchResult = "true"
    /\ currentDomain = "a.b.example.com"
    /\ listDomain = "*.example.com"

\* C7: domainMatches returns a boolean for every pair of inputs, missing
\* (null / undefined) values included, and never throws; malformed input
\* yields false.
C7_Total ==
    Matched =>
        /\ matchResult \in {"true", "false"}
        /\ (~IsString(currentDomain) \/ ~IsString(listDomain)) => matchResult = "false"

====
